---- MODULE Spec2Model ----
(***************************************************************************)
(* A model of the waffle IR translators and of the module copier.          *)
(*                                                                         *)
(* Entity ids (Block, Value, Func, Signature, ...) are the source's dense   *)
(* indices shifted by one: id n here is index n-1 there, and 0 stands for   *)
(* the source's invalid() sentinel.  An EntityVec is a sequence; push and   *)
(* alloc are Append and vend the id Len+1.                                  *)
(***************************************************************************)
EXTENDS Integers, Sequences, FiniteSets, TLC

\* Largest number of blocks of an enumerated source body.
MaxBlocks == 2

EmptyMap == [x \in {} |-> 0]

Range(s) == {s[i] : i \in DOMAIN s}

MapSeq(s, m) == [i \in DOMAIN s |-> m[s[i]]]

\* args.iter().filter_map(|a| state.get(a)).cloned().collect()
filter_map_get(args, state) ==
    LET kept == SelectSeq(args, LAMBDA a : a \in DOMAIN state)
    IN  MapSeq(kept, state)

(***************************************************************************)
(* IR data: operators, value definitions, terminators, blocks, bodies.     *)
(***************************************************************************)
Op(name, index) == [name |-> name, index |-> index]

PureOps == {"Nop", "I32Const", "I32Add", "RefFunc", "Select"}

\* Operator::is_pure: effects().is_empty()
is_pure(op) == op.name \in PureOps

VBlockParam(block, index, ty) ==
    [kind |-> "BlockParam", block |-> block, index |-> index, ty |-> ty]
VOperator(op, args, tys) ==
    [kind |-> "Operator", op |-> op, args |-> args, tys |-> tys]
VPickOutput(value, index, ty) ==
    [kind |-> "PickOutput", value |-> value, index |-> index, ty |-> ty]
VAlias(value) == [kind |-> "Alias", value |-> value]
VNone == [kind |-> "None"]

\* value_is_pure(v, body): the value is an operator whose effect set is empty
value_is_pure(v, body) ==
    /\ body.values[v].kind = "Operator"
    /\ is_pure(body.values[v].op)

\* ValueDef::visit_uses: the values a definition reads
ValueDef_visit_uses(def) ==
    CASE def.kind = "Operator"   -> Range(def.args)
      [] def.kind = "PickOutput" -> {def.value}
      [] def.kind = "Alias"      -> {def.value}
      [] OTHER                   -> {}

BlockTarget(block, args) == [block |-> block, args |-> args]

TBr(target) == [kind |-> "Br", target |-> target]
TCondBr(cond, if_true, if_false) ==
    [kind |-> "CondBr", cond |-> cond, if_true |-> if_true, if_false |-> if_false]
TSelect(value, targets, default) ==
    [kind |-> "Select", value |-> value, targets |-> targets, default |-> default]
TReturn(values) == [kind |-> "Return", values |-> values]
TReturnCall(func, args) == [kind |-> "ReturnCall", func |-> func, args |-> args]
TReturnCallIndirect(sig, table, args) ==
    [kind |-> "ReturnCallIndirect", sig |-> sig, table |-> table, args |-> args]
TReturnCallRef(sig, args) == [kind |-> "ReturnCallRef", sig |-> sig, args |-> args]
TUnreachable == [kind |-> "Unreachable"]
TNone == [kind |-> "None"]

\* Terminator::visit_targets: the block targets, in visiting order
visit_targets(t) ==
    CASE t.kind = "Br"     -> <<t.target>>
      [] t.kind = "CondBr" -> <<t.if_true, t.if_false>>
      [] t.kind = "Select" -> <<t.default>> \o t.targets
      [] OTHER             -> <<>>

\* Terminator::visit_successors
visit_successors(t) ==
    LET ts == visit_targets(t) IN [i \in DOMAIN ts |-> ts[i].block]

\* Terminator::visit_uses: target arguments, then the terminator's own operands
Terminator_visit_uses(t) ==
    UNION {Range(visit_targets(t)[i].args) : i \in DOMAIN visit_targets(t)}
    \cup (CASE t.kind = "CondBr"             -> {t.cond}
            [] t.kind = "Select"             -> {t.value}
            [] t.kind = "Return"             -> Range(t.values)
            [] t.kind = "ReturnCall"         -> Range(t.args)
            [] t.kind = "ReturnCallIndirect" -> Range(t.args)
            [] OTHER                         -> {})

\* BlockDef::default()
BlockDef_default ==
    [params |-> <<>>, insts |-> <<>>, terminator |-> TNone,
     succs |-> <<>>, pos_in_succ_pred |-> <<>>,
     preds |-> <<>>, pos_in_pred_succ |-> <<>>]

\* FunctionBody::add_block; the new block is Len(body.blocks) + 1
add_block(body) == [body EXCEPT !.blocks = Append(@, BlockDef_default)]

\* FunctionBody::add_value; the new value is Len(body.values) + 1
add_value(body, def) ==
    [body EXCEPT !.values = Append(@, def), !.value_blocks = Append(@, 0)]

\* FunctionBody::add_blockparam
add_blockparam(body, block, ty) ==
    LET index == Len(body.blocks[block].params)
        b1    == add_value(body, VBlockParam(block, index, ty))
        value == Len(b1.values)
    IN  [b1 EXCEPT !.blocks[block].params = Append(@, <<ty, value>>),
                   !.value_blocks[value] = block]

\* FunctionBody::append_to_block
append_to_block(body, block, value) ==
    [body EXCEPT !.blocks[block].insts = Append(@, value),
                 !.value_blocks[value] = block]

\* FunctionBody::add_op: a new operator value appended to the block
add_op(body, block, op, args, tys) ==
    LET b1 == add_value(body, VOperator(op, args, tys))
    IN  append_to_block(b1, block, Len(b1.values))

\* FunctionBody::add_edge; positions are the source's 0-based indices
add_edge(body, from, to) ==
    LET succ_pos == Len(body.blocks[from].succs)
        pred_pos == Len(body.blocks[to].preds)
        b1 == [body EXCEPT !.blocks[from].succs = Append(@, to)]
        b2 == [b1 EXCEPT !.blocks[to].preds = Append(@, from)]
        b3 == [b2 EXCEPT !.blocks[from].pos_in_succ_pred = Append(@, pred_pos)]
    IN  [b3 EXCEPT !.blocks[to].pos_in_pred_succ = Append(@, succ_pos)]

RECURSIVE add_edges(_, _, _)
add_edges(body, from, succs) ==
    IF succs = <<>> THEN body
    ELSE add_edges(add_edge(body, from, Head(succs)), from, Tail(succs))

\* FunctionBody::set_terminator: add the edges of the terminator, store it
set_terminator(body, block, terminator) ==
    LET b1 == add_edges(body, block, visit_successors(terminator))
    IN  [b1 EXCEPT !.blocks[block].terminator = terminator]

RECURSIVE add_blockparams(_, _, _)
add_blockparams(body, block, tys) ==
    IF tys = <<>> THEN body
    ELSE add_blockparams(add_blockparam(body, block, Head(tys)), block, Tail(tys))

\* FunctionBody::new(module, sig): one entry block whose blockparams are the
\* parameters of the signature
FunctionBody_new(module, sig) ==
    add_blockparams(
        [n_params |-> Len(module.signatures[sig].params),
         rets |-> module.signatures[sig].returns, entry |-> 1,
         blocks |-> <<BlockDef_default>>, values |-> <<>>, value_blocks |-> <<>>],
        1, module.signatures[sig].params)

\* FunctionBody::recompute_edges
RECURSIVE recompute_from(_, _)
recompute_from(body, block) ==
    IF block > Len(body.blocks) THEN body
    ELSE recompute_from(
             add_edges(body, block, visit_successors(body.blocks[block].terminator)),
             block + 1)

recompute_edges(body) ==
    recompute_from(
        [body EXCEPT !.blocks =
            [b \in DOMAIN body.blocks |->
                [body.blocks[b] EXCEPT !.preds = <<>>, !.succs = <<>>,
                                       !.pos_in_succ_pred = <<>>,
                                       !.pos_in_pred_succ = <<>>]]],
        1)

\* SignatureData::Func { params, returns }
SigFunc(params, returns) == [kind |-> "Func", params |-> params, returns |-> returns]

\* Type, HeapType, WithNullable, WithMutablility, StorageType and the other
\* variants of SignatureData (ir.rs 157-215, ir/module.rs 56-84); a Type
\* that may be a reference is a record
TyVal(name) == [ty |-> name]
WithNullable(value, nullable) == [value |-> value, nullable |-> nullable]
TyHeap(h) == [ty |-> "Heap", heap |-> h]
HeapType(kind, sig_index) == [kind |-> kind, sig_index |-> sig_index]
WithMutablility(value, mutable) == [value |-> value, mutable |-> mutable]
\* StorageType: Val(Type), I8 or I16
StorageVal(t) == [storage |-> "Val", val |-> t]
StorageI8 == [storage |-> "I8", val |-> TyVal("I32")]
SigStruct(fields) == [kind |-> "Struct", fields |-> fields]
SigArray(ty) == [kind |-> "Array", ty |-> ty]
SigNone == [kind |-> "None"]

\* FuncDecl (ir/func.rs 20-33); FuncDecl::None is the Default
FuncDecl_None == [kind |-> "None"]
FuncDecl_Import(sig, name) == [kind |-> "Import", sig |-> sig, name |-> name]
FuncDecl_Body(sig, name, body) ==
    [kind |-> "Body", sig |-> sig, name |-> name, body |-> body]

\* util::new_sig: the id of an equal signature of the module, or of a new one
new_sig(m, sd) ==
    IF \E a \in DOMAIN m.signatures : m.signatures[a] = sd
    THEN [module |-> m,
          sig |-> CHOOSE a \in DOMAIN m.signatures :
                      /\ m.signatures[a] = sd
                      /\ \A b \in DOMAIN m.signatures : m.signatures[b] = sd => a <= b]
    ELSE [module |-> [m EXCEPT !.signatures = Append(@, sd)],
          sig |-> Len(m.signatures) + 1]

\* Display of a Block (entity.rs 78-81): the prefix and the 0-based index
Block_to_string(k) == "block" \o ToString(k - 1)

ParamTypes(blockdef) == [i \in DOMAIN blockdef.params |-> blockdef.params[i][1]]
ParamValues(blockdef) == [i \in DOMAIN blockdef.params |-> blockdef.params[i][2]]

(***************************************************************************)
(* Source bodies the translators are run on.  A body is laid out from a    *)
(* control-flow choice per block and one instruction shape; every block    *)
(* reads only its own blockparams and instructions (max-SSA form).         *)
(***************************************************************************)
Shapes == {"empty", "impure", "dead", "live", "chain", "callchain", "pick",
           "alias", "none"}

LeafKinds == {"Return", "ReturnCall", "ReturnCallIndirect", "ReturnCallRef",
              "Unreachable", "None"}

\* The instructions of a shape, placed after value o; pv is the block's
\* blockparam (0 if it has none); use is the value the terminator reads.
ShapeDefs(shape, o, pv) ==
    CASE shape = "empty"  -> [defs |-> <<>>, use |-> pv]
      [] shape = "impure" ->
            [defs |-> <<VOperator(Op("Call", 1), <<>>, <<"I32">>)>>, use |-> pv]
      [] shape = "dead"   ->
            [defs |-> <<VOperator(Op("I32Const", 7), <<>>, <<"I32">>)>>, use |-> pv]
      [] shape = "live"   ->
            [defs |-> <<VOperator(Op("I32Const", 7), <<>>, <<"I32">>)>>, use |-> o + 1]
      [] shape = "chain"  ->
            [defs |-> <<VOperator(Op("I32Const", 7), <<>>, <<"I32">>),
                        VOperator(Op("I32Add", 0), <<o + 1, o + 1>>, <<"I32">>)>>,
             use |-> pv]
      [] shape = "callchain" ->
            [defs |-> <<VOperator(Op("Call", 1), <<>>, <<"I32">>),
                        VOperator(Op("I32Add", 0), <<o + 1, o + 1>>, <<"I32">>)>>,
             use |-> pv]
      [] shape = "pick"   ->
            [defs |-> <<VOperator(Op("Call", 1), <<>>, <<"I32", "I32">>),
                        VPickOutput(o + 1, 1, "I32")>>,
             use |-> o + 2]
      [] shape = "alias"  ->
            [defs |-> <<VOperator(Op("I32Const", 7), <<>>, <<"I32">>),
                        VAlias(o + 1)>>,
             use |-> o + 2]
      [] shape = "none"   -> [defs |-> <<VNone>>, use |-> pv]

ShapeSize(shape) == Len(ShapeDefs(shape, 0, 0).defs)

Choice(k, t, f) == [k |-> k, t |-> t, f |-> f]

TermChoices(n) ==
    {Choice("leaf", 0, 0)}
    \cup {Choice("Br", t, 0) : t \in 1..n}
    \cup {Choice("CondBr", t, f) : t \in 1..n, f \in 1..n}

CFGs(n) == [1..n -> TermChoices(n)]

MkLeaf(leaf, vals) ==
    CASE leaf = "Return"             -> TReturn(vals)
      [] leaf = "ReturnCall"         -> TReturnCall(1, vals)
      [] leaf = "ReturnCallIndirect" -> TReturnCallIndirect(1, 1, vals)
      [] leaf = "ReturnCallRef"      -> TReturnCallRef(1, vals)
      [] leaf = "Unreachable"        -> TUnreachable
      [] leaf = "None"               -> TNone

MkTerm(c, leaf, use, np) ==
    LET args == IF np = 1 THEN <<use>> ELSE <<>>
        vals == IF use = 0 THEN <<>> ELSE <<use>>
    IN  CASE c.k = "leaf"   -> MkLeaf(leaf, vals)
          [] c.k = "Br"     -> TBr(BlockTarget(c.t, args))
          [] c.k = "CondBr" ->
                TCondBr(use, BlockTarget(c.t, args), BlockTarget(c.f, args))
          [] c.k = "Select" ->
                TSelect(use, <<BlockTarget(c.t, args)>>, BlockTarget(c.f, args))

MkBody(n, np, shape, leaf, cfg) ==
    LET sz      == np + ShapeSize(shape)
        base(b) == (b - 1) * sz
        pv(b)   == IF np = 1 THEN base(b) + 1 ELSE 0
        sd(b)   == ShapeDefs(shape, base(b) + np, pv(b))
        blk(b)  ==
            [BlockDef_default EXCEPT
                !.params = [i \in 1..np |-> <<"I32", base(b) + i>>],
                !.insts = [i \in 1..ShapeSize(shape) |-> base(b) + np + i],
                !.terminator = MkTerm(cfg[b], leaf, sd(b).use, np)]
        val(v)  ==
            LET b == ((v - 1) \div sz) + 1
                j == ((v - 1) % sz) + 1
            IN  IF j <= np THEN VBlockParam(b, j - 1, "I32")
                ELSE sd(b).defs[j - np]
    IN  recompute_edges(
            [n_params |-> np,
             rets |-> IF sd(1).use = 0 THEN <<>> ELSE <<"I32">>,
             entry |-> 1,
             blocks |-> [b \in 1..n |-> blk(b)],
             values |-> [v \in 1..(n * sz) |-> val(v)],
             value_blocks |-> [v \in 1..(n * sz) |-> ((v - 1) \div sz) + 1]])

\* A flavour gives every block a value for its terminator to read, or the
\* control flow has no conditional branch.
HasUse(np, shape) == ShapeDefs(shape, np, np).use # 0

NeedsUse(cfg) == \E b \in DOMAIN cfg : cfg[b].k \in {"CondBr", "Select"}

\* Named control-flow graphs: a single block, a self loop, a two-block loop,
\* the three-block loop (entry -> body -> entry, entry -> exit), a diamond
\* joining in reverse order, and a switch.
ScenarioCFGs ==
    {<<Choice("leaf", 0, 0)>>,
     <<Choice("CondBr", 1, 2), Choice("leaf", 0, 0)>>,
     <<Choice("Br", 2, 0), Choice("CondBr", 1, 2)>>,
     <<Choice("CondBr", 2, 3), Choice("Br", 1, 0), Choice("leaf", 0, 0)>>,
     <<Choice("CondBr", 3, 2), Choice("Br", 3, 0), Choice("leaf", 0, 0)>>,
     <<Choice("Select", 2, 3), Choice("Br", 3, 0), Choice("leaf", 0, 0)>>}

BaseFlavours == {<<1, "impure", "Return">>}

AllFlavours == {<<np, sh, lf>> : np \in {0, 1}, sh \in Shapes, lf \in LeafKinds}

SourceBodies ==
    {MkBody(Len(cfg), fl[1], fl[2], fl[3], cfg) :
        <<cfg, fl>> \in
            {x \in (UNION {CFGs(n) : n \in 1..MaxBlocks}) \X BaseFlavours :
                NeedsUse(x[1]) => HasUse(x[2][1], x[2][2])}
            \cup
            {x \in ScenarioCFGs \X AllFlavours :
                NeedsUse(x[1]) => HasUse(x[2][1], x[2][2])}}

(***************************************************************************)
(* The per-instruction copy loop shared by Kts::translate (kts.rs 32-79),  *)
(* Fts::fueled_translate (fts.rs 53-100) and Fts::translate (fts.rs        *)
(* 210-257): the three loops are the same text.                            *)
(*   acc = [dst, state, status]; status is "ok", "err" (a `?` returned an  *)
(*   error) or "panic" (a todo!() was reached).                            *)
(***************************************************************************)
\* the pruning test: pure, and read by no instruction of the block nor by
\* the block's terminator
pruned_whether_pure_or_not(src, k, i) ==
    /\ \A j \in Range(src.blocks[k].insts) : i \notin ValueDef_visit_uses(src.values[j])
    /\ i \notin Terminator_visit_uses(src.blocks[k].terminator)
pruned(src, k, i) ==
    /\ value_is_pure(i, src)
    /\ \A j \in Range(src.blocks[k].insts) : i \notin ValueDef_visit_uses(src.values[j])
    /\ i \notin Terminator_visit_uses(src.blocks[k].terminator)

copy_inst(acc, new, src, k, i) ==
    LET def == src.values[i] IN
    IF pruned(src, k, i) THEN acc
    ELSE CASE def.kind \in {"BlockParam", "Placeholder"} ->
                [acc EXCEPT !.status = "panic"]
           [] def.kind = "Operator" ->
                LET d1 == add_op(acc.dst, new, def.op,
                                 filter_map_get(def.args, acc.state), def.tys)
                IN  [acc EXCEPT !.dst = d1,
                                !.state = (i :> Len(d1.values)) @@ acc.state]
           [] def.kind = "PickOutput" ->
                IF def.value \notin DOMAIN acc.state
                THEN [acc EXCEPT !.status = "err"]
                ELSE LET d1 == add_value(acc.dst,
                                   VPickOutput(acc.state[def.value], def.index, def.ty))
                         d2 == append_to_block(d1, new, Len(d1.values))
                     IN  [acc EXCEPT !.dst = d2,
                                     !.state = (i :> Len(d1.values)) @@ acc.state]
           [] def.kind = "Alias" ->
                IF def.value \notin DOMAIN acc.state
                THEN [acc EXCEPT !.status = "err"]
                ELSE [acc EXCEPT !.state = (i :> acc.state[def.value]) @@ acc.state]
           [] def.kind = "None" ->
                LET d1 == add_op(acc.dst, new, Op("Nop", 0), <<>>, <<>>)
                IN  [acc EXCEPT !.dst = d1,
                                !.state = (i :> Len(d1.values)) @@ acc.state]

RECURSIVE copy_insts(_, _, _, _, _)
copy_insts(acc, new, src, k, insts) ==
    IF insts = <<>> \/ acc.status # "ok" THEN acc
    ELSE copy_insts(copy_inst(acc, new, src, k, Head(insts)), new, src, k, Tail(insts))

\* the substitution of the source blockparams by the destination's
param_state(srcblock, dstblock) ==
    [v \in Range(ParamValues(srcblock)) |->
        ParamValues(dstblock)[CHOOSE i \in DOMAIN srcblock.params :
                                  srcblock.params[i][2] = v]]

\* the operand a terminator looks up before it translates its targets
\* (Select) or after it (CondBr); 0 for the other terminators
early_operand(t) == IF t.kind = "Select" THEN t.value ELSE 0
late_operand(t) == IF t.kind = "CondBr" THEN t.cond ELSE 0

\* the destination terminator built from the translated targets, which are
\* in the order of visit_targets
rebuild_terminator(t, state, done) ==
    CASE t.kind = "Br"     -> TBr(done[1])
      [] t.kind = "CondBr" -> TCondBr(state[t.cond], done[1], done[2])
      [] t.kind = "Select" -> TSelect(state[t.value], Tail(done), done[1])
      [] t.kind = "Return" -> TReturn(filter_map_get(t.values, state))
      [] t.kind = "ReturnCall" ->
            TReturnCall(t.func, filter_map_get(t.args, state))
      [] t.kind = "ReturnCallIndirect" ->
            TReturnCallIndirect(t.sig, t.table, filter_map_get(t.args, state))
      [] t.kind = "ReturnCallRef" ->
            TReturnCallRef(t.sig, filter_map_get(t.args, state))
      [] t.kind = "Unreachable" -> TUnreachable
      [] t.kind = "None" -> TNone

\* kts.rs 31: self.blocks.insert(k, new)
cache_insert_skipped(blocks, k, new) == blocks
cache_insert(blocks, k, new) == (k :> new) @@ blocks

RNone == [tag |-> "None", val |-> 0]
ROk(v) == [tag |-> "Ok", val |-> v]
RErr == [tag |-> "Err", val |-> 0]
RPanic == [tag |-> "Panic", val |-> 0]

(***************************************************************************)
(* Kts (copying/kts.rs).  Kts::translate is recursive; the model keeps its *)
(* call stack.  A frame is a call that has not yet looked at the cache     *)
(* (pc = "call") or a copied block whose terminator is being rewritten     *)
(* (pc = "term", with the targets translated so far).                      *)
(***************************************************************************)
VARIABLES kts_src, kts_dst, kts_blocks, kts_stack, kts_ret,
          kts_round, kts_first, kts_more

ktsVars == <<kts_src, kts_dst, kts_blocks, kts_stack, kts_ret,
             kts_round, kts_first, kts_more>>

\* Fts (copying/fts.rs): the body run_once works on, the fuel, the module,
\* Fts.blocks, the call stack of translate and fueled_translate, the value
\* returned by the call that ended last, where run_once stands, and the
\* number of steps taken so far
VARIABLES fts_f, fts_fuel, fts_module, fts_blocks, fts_stack, fts_ret, fts_phase,
          fts_steps

ftsVars == <<fts_f, fts_fuel, fts_module, fts_blocks, fts_stack, fts_ret, fts_phase,
             fts_steps>>

\* The module copier (copying/module.rs): the module as it was before
\* tree_shake, Copier.src, Copier.dest, State.cache, State.fun_cache,
\* State.sig_cache, the call stack of the translate functions, the value
\* returned by the call that ended last, the number of exports done,
\* where tree_shake_via stands and the number of steps taken so far
VARIABLES cop_orig, cop_src, cop_dest, cop_cache, cop_fun_cache, cop_sig_cache,
          cop_stack, cop_ret, cop_done, cop_phase, cop_steps

copVars == <<cop_orig, cop_src, cop_dest, cop_cache, cop_fun_cache, cop_sig_cache,
             cop_stack, cop_ret, cop_done, cop_phase, cop_steps>>

\* Frint (passes/frint.rs): the source body, the body being built,
\* Frint.blocks, the call stack of translate and the value returned by the
\* call that ended last
VARIABLES frint_src, frint_dst, frint_blocks, frint_stack, frint_ret

frintVars == <<frint_src, frint_dst, frint_blocks, frint_stack, frint_ret>>

\* fuse (passes/mem_fusing.rs): the module, the module as metafuse_all left
\* it, the Fuse record, the statement fuse is at and the function
\* take_per_func_body is at
VARIABLES fuse_m, fuse_pre, fuse_self, fuse_pc, fuse_i

fuseVars == <<fuse_m, fuse_pre, fuse_self, fuse_pc, fuse_i>>

\* metafuse_all and the run of the start chain it builds: the module, the
\* module before the pass, the Cfg, the step, the call stack, the memories
\* and the functions entered so far
VARIABLES unmem_m, unmem_orig, unmem_cfg, unmem_pc, unmem_stack, unmem_mem,
          unmem_trace

unmemVars == <<unmem_m, unmem_orig, unmem_cfg, unmem_pc, unmem_stack,
               unmem_mem, unmem_trace>>

\* fixup_orders (passes/reorder_funs.rs): the module, the module before the
\* pass, the map fs of the pass and whether the pass has run
VARIABLES reorder_m, reorder_orig, reorder_fs, reorder_pc

reorderVars == <<reorder_m, reorder_orig, reorder_fs, reorder_pc>>

\* the value arena of a FunctionBody under add_value, set_alias and
\* resolve_and_update_alias (ir/func.rs): the values, how the last call
\* ended and what it was
VARIABLES alias_values, alias_pc, alias_call

aliasVars == <<alias_values, alias_pc, alias_call>>

\* the blocks of a FunctionBody under add_block, set_terminator,
\* split_edge and recompute_edges (ir/func.rs): the body and the last call
VARIABLES edge_body, edge_call

edgeVars == <<edge_body, edge_call>>

\* take_per_func_body and try_take_per_func_body (ir/module.rs): the
\* functions of the module, the functions before the call, which of the
\* two is running, where it is, the function it is at and the declaration
\* it holds
VARIABLES take_funcs, take_orig, take_op, take_pc, take_i, take_x

takeVars == <<take_funcs, take_orig, take_op, take_pc, take_i, take_x>>

\* Subtypes (ir.rs): the module, the two references compared, whether the
\* comparison has been made and its result
VARIABLES sub_module, sub_a, sub_b, sub_pc, sub_ret

subVars == <<sub_module, sub_a, sub_b, sub_pc, sub_ret>>

\* splice_op (passes/splice.rs): the module, the operator, the position of
\* the call and its result
VARIABLES splice_m, splice_x, splice_pc, splice_ret

spliceVars == <<splice_m, splice_x, splice_pc, splice_ret>>

\* fixup_mem_orders (passes/reorder_funs.rs): the module, the module before
\* the pass and whether the pass has run
VARIABLES memorder_m, memorder_orig, memorder_pc

memorderVars == <<memorder_m, memorder_orig, memorder_pc>>

vars == <<ktsVars, ftsVars, copVars, frintVars, fuseVars, unmemVars,
          reorderVars, aliasVars, edgeVars, takeVars, subVars, spliceVars,
          memorderVars>>

notKts == <<ftsVars, copVars, frintVars, fuseVars, unmemVars, reorderVars,
            aliasVars, edgeVars, takeVars, subVars, spliceVars, memorderVars>>
notFts == <<ktsVars, copVars, frintVars, fuseVars, unmemVars, reorderVars,
            aliasVars, edgeVars, takeVars, subVars, spliceVars, memorderVars>>
notCop == <<ktsVars, ftsVars, frintVars, fuseVars, unmemVars, reorderVars,
            aliasVars, edgeVars, takeVars, subVars, spliceVars, memorderVars>>
notFrint == <<ktsVars, ftsVars, copVars, fuseVars, unmemVars, reorderVars,
              aliasVars, edgeVars, takeVars, subVars, spliceVars,
              memorderVars>>
notFuse == <<ktsVars, ftsVars, copVars, frintVars, unmemVars, reorderVars,
             aliasVars, edgeVars, takeVars, subVars, spliceVars,
             memorderVars>>
notUnmem == <<ktsVars, ftsVars, copVars, frintVars, fuseVars, reorderVars,
              aliasVars, edgeVars, takeVars, subVars, spliceVars,
              memorderVars>>
notReorder == <<ktsVars, ftsVars, copVars, frintVars, fuseVars, unmemVars,
                aliasVars, edgeVars, takeVars, subVars, spliceVars,
                memorderVars>>
notAlias == <<ktsVars, ftsVars, copVars, frintVars, fuseVars, unmemVars,
              reorderVars, edgeVars, takeVars, subVars, spliceVars,
              memorderVars>>
notEdge == <<ktsVars, ftsVars, copVars, frintVars, fuseVars, unmemVars,
             reorderVars, aliasVars, takeVars, subVars, spliceVars,
             memorderVars>>
notTake == <<ktsVars, ftsVars, copVars, frintVars, fuseVars, unmemVars,
             reorderVars, aliasVars, edgeVars, subVars, spliceVars,
             memorderVars>>
notSub == <<ktsVars, ftsVars, copVars, frintVars, fuseVars, unmemVars,
            reorderVars, aliasVars, edgeVars, takeVars, spliceVars,
            memorderVars>>
notSplice == <<ktsVars, ftsVars, copVars, frintVars, fuseVars, unmemVars,
               reorderVars, aliasVars, edgeVars, takeVars, subVars,
               memorderVars>>
notMemorder == <<ktsVars, ftsVars, copVars, frintVars, fuseVars, unmemVars,
                 reorderVars, aliasVars, edgeVars, takeVars, subVars,
                 spliceVars>>

FrintOff ==
    /\ frint_src = 0
    /\ frint_dst = 0
    /\ frint_blocks = 0
    /\ frint_stack = 0
    /\ frint_ret = 0

FuseOff ==
    /\ fuse_m = 0
    /\ fuse_pre = 0
    /\ fuse_self = 0
    /\ fuse_pc = 0
    /\ fuse_i = 0

UnmemOff ==
    /\ unmem_m = 0
    /\ unmem_orig = 0
    /\ unmem_cfg = 0
    /\ unmem_pc = 0
    /\ unmem_stack = 0
    /\ unmem_mem = 0
    /\ unmem_trace = 0

ReorderOff ==
    /\ reorder_m = 0
    /\ reorder_orig = 0
    /\ reorder_fs = 0
    /\ reorder_pc = 0

AliasOff ==
    /\ alias_values = 0
    /\ alias_pc = 0
    /\ alias_call = 0

EdgeOff ==
    /\ edge_body = 0
    /\ edge_call = 0

TakeOff ==
    /\ take_funcs = 0
    /\ take_orig = 0
    /\ take_op = 0
    /\ take_pc = 0
    /\ take_i = 0
    /\ take_x = 0

SubOff ==
    /\ sub_module = 0
    /\ sub_a = 0
    /\ sub_b = 0
    /\ sub_pc = 0
    /\ sub_ret = 0

SpliceOff ==
    /\ splice_m = 0
    /\ splice_x = 0
    /\ splice_pc = 0
    /\ splice_ret = 0

MemorderOff ==
    /\ memorder_m = 0
    /\ memorder_orig = 0
    /\ memorder_pc = 0

\* every later subsystem but this one is off
PassesOff(this) ==
    /\ (IF this = "frint" THEN TRUE ELSE FrintOff)
    /\ (IF this = "fuse" THEN TRUE ELSE FuseOff)
    /\ (IF this = "unmem" THEN TRUE ELSE UnmemOff)
    /\ (IF this = "reorder" THEN TRUE ELSE ReorderOff)
    /\ (IF this = "alias" THEN TRUE ELSE AliasOff)
    /\ (IF this = "edge" THEN TRUE ELSE EdgeOff)
    /\ (IF this = "take" THEN TRUE ELSE TakeOff)
    /\ (IF this = "sub" THEN TRUE ELSE SubOff)
    /\ (IF this = "splice" THEN TRUE ELSE SpliceOff)
    /\ (IF this = "memorder" THEN TRUE ELSE MemorderOff)

CopOff ==
    /\ cop_orig = 0 /\ cop_src = 0 /\ cop_dest = 0 /\ cop_cache = EmptyMap
    /\ cop_fun_cache = EmptyMap /\ cop_sig_cache = EmptyMap /\ cop_stack = <<>>
    /\ cop_ret = [tag |-> "None", val |-> 0]
    /\ cop_done = 0 /\ cop_phase = "off" /\ cop_steps = 0

KtsOff ==
    /\ kts_src = 0 /\ kts_dst = 0 /\ kts_blocks = EmptyMap /\ kts_stack = <<>>
    /\ kts_ret = [tag |-> "None", val |-> 0]
    /\ kts_round = 0 /\ kts_first = 0 /\ kts_more = FALSE

FtsOff ==
    /\ fts_f = 0 /\ fts_fuel = 0 /\ fts_module = 0 /\ fts_blocks = EmptyMap
    /\ fts_stack = <<>> /\ fts_ret = [tag |-> "None", val |-> 0]
    /\ fts_phase = "off" /\ fts_steps = 0

CallFrame(k) == [pc |-> "call", k |-> k, new |-> 0, state |-> EmptyMap, done |-> <<>>]
TermFrame(k, new, state) ==
    [pc |-> "term", k |-> k, new |-> new, state |-> state, done |-> <<>>]

Top(stack) == stack[Len(stack)]
Pop(stack) == SubSeq(stack, 1, Len(stack) - 1)

\* the module a fresh destination body is made in: the function's signature
KtsModule(src) ==
    [signatures |-> <<SigFunc(ParamTypes(src.blocks[src.entry]), src.rets)>>]

KtsInit ==
    /\ kts_src \in SourceBodies
    /\ kts_dst = FunctionBody_new(KtsModule(kts_src), 1)
    /\ kts_blocks = EmptyMap
    /\ kts_stack = <<>>
    /\ kts_ret = RNone
    /\ kts_round = 1
    /\ kts_first = 0
    /\ kts_more = FALSE
    /\ FtsOff
    /\ CopOff
    /\ PassesOff("")

\* a caller invokes Kts::translate(dst, src, k): a first time on the entry
\* (module.rs 380), and again on a block this Kts has translated
Kts_invoke(k) ==
    /\ kts_stack = <<>>
    /\ kts_ret.tag # "Panic"
    /\ IF kts_first = 0 THEN k = kts_src.entry ELSE k \in DOMAIN kts_blocks
    /\ kts_stack' = <<CallFrame(k)>>
    /\ kts_ret' = RNone
    /\ kts_first' = IF kts_first = 0 THEN k ELSE kts_first
    /\ kts_more' = (kts_first # 0)
    /\ UNCHANGED <<kts_src, kts_dst, kts_blocks, kts_round, notKts>>

\* kts.rs 22-24: the block has been translated (or is being translated)
Kts_translate_cached ==
    /\ kts_stack # <<>>
    /\ Top(kts_stack).pc = "call"
    /\ Top(kts_stack).k \in DOMAIN kts_blocks
    /\ kts_stack' = Pop(kts_stack)
    /\ kts_ret' = ROk(kts_blocks[Top(kts_stack).k])
    /\ UNCHANGED <<kts_src, kts_dst, kts_blocks, kts_round, kts_first, kts_more, notKts>>

\* kts.rs 25-79 and the operand look-up of 117-120: a new block, its
\* blockparams, the cache entry, the instructions
Kts_translate_copy ==
    /\ kts_stack # <<>>
    /\ Top(kts_stack).pc = "call"
    /\ Top(kts_stack).k \notin DOMAIN kts_blocks
    /\ LET k     == Top(kts_stack).k
           d1    == add_block(kts_dst)
           new   == Len(d1.blocks)
           d2    == add_blockparams(d1, new, ParamTypes(kts_src.blocks[k]))
           acc   == copy_insts([dst |-> d2,
                                state |-> param_state(kts_src.blocks[k], d2.blocks[new]),
                                status |-> "ok"],
                               new, kts_src, k, kts_src.blocks[k].insts)
           early == early_operand(kts_src.blocks[k].terminator)
       IN  /\ kts_dst' = acc.dst
           /\ kts_blocks' = cache_insert(kts_blocks, k, new)
           /\ IF acc.status = "panic"
              THEN kts_stack' = <<>> /\ kts_ret' = RPanic
              ELSE IF acc.status = "err" \/ (early # 0 /\ early \notin DOMAIN acc.state)
              THEN kts_stack' = <<>> /\ kts_ret' = RErr
              ELSE /\ kts_stack' = Append(Pop(kts_stack), TermFrame(k, new, acc.state))
                   /\ kts_ret' = RNone
    /\ UNCHANGED <<kts_src, kts_round, kts_first, kts_more, notKts>>

\* kts.rs 88: the recursive call for the next target of the terminator
Kts_translate_target ==
    /\ kts_stack # <<>>
    /\ Top(kts_stack).pc = "term"
    /\ kts_ret = RNone
    /\ LET fr == Top(kts_stack)
           ts == visit_targets(kts_src.blocks[fr.k].terminator)
       IN  /\ Len(fr.done) < Len(ts)
           /\ kts_stack' = Append(kts_stack, CallFrame(ts[Len(fr.done) + 1].block))
    /\ UNCHANGED <<kts_src, kts_dst, kts_blocks, kts_ret, kts_round, kts_first,
                   kts_more, notKts>>

\* kts.rs 80-90: the recursive call returned; the target is rebuilt
Kts_translate_resume ==
    /\ kts_stack # <<>>
    /\ Top(kts_stack).pc = "term"
    /\ kts_ret.tag = "Ok"
    /\ LET fr == Top(kts_stack)
           ts == visit_targets(kts_src.blocks[fr.k].terminator)
           t  == ts[Len(fr.done) + 1]
           bt == BlockTarget(kts_ret.val, filter_map_get(t.args, fr.state))
       IN  kts_stack' = Append(Pop(kts_stack), [fr EXCEPT !.done = Append(@, bt)])
    /\ kts_ret' = RNone
    /\ UNCHANGED <<kts_src, kts_dst, kts_blocks, kts_round, kts_first, kts_more, notKts>>

\* kts.rs 91-159, then 22-24 on the next turn of the loop
Kts_translate_finish ==
    /\ kts_stack # <<>>
    /\ Top(kts_stack).pc = "term"
    /\ kts_ret = RNone
    /\ LET fr   == Top(kts_stack)
           t    == kts_src.blocks[fr.k].terminator
           late == late_operand(t)
       IN  /\ Len(fr.done) = Len(visit_targets(t))
           /\ IF late # 0 /\ late \notin DOMAIN fr.state
              THEN /\ kts_stack' = <<>>
                   /\ kts_ret' = RErr
                   /\ kts_dst' = kts_dst
              ELSE /\ kts_dst' = set_terminator(kts_dst, fr.new,
                                     rebuild_terminator(t, fr.state, fr.done))
                   /\ kts_stack' = Pop(kts_stack)
                   /\ kts_ret' = ROk(kts_blocks[fr.k])
    /\ UNCHANGED <<kts_src, kts_blocks, kts_round, kts_first, kts_more, notKts>>

\* the translated body becomes the source of a second translation into a
\* fresh body, with a fresh Kts (module.rs 379-382: c.entry = l; *b = c)
Kts_again ==
    /\ kts_round = 1
    /\ kts_stack = <<>>
    /\ kts_ret.tag = "Ok"
    /\ kts_first = kts_src.entry
    /\ ~kts_more
    /\ kts_src' = [kts_dst EXCEPT !.entry = kts_ret.val]
    /\ kts_dst' = FunctionBody_new(KtsModule(kts_src), 1)
    /\ kts_blocks' = EmptyMap
    /\ kts_ret' = RNone
    /\ kts_round' = 2
    /\ kts_first' = 0
    /\ UNCHANGED <<kts_stack, kts_more, notKts>>

NextKts ==
    \/ \E k \in DOMAIN kts_src.blocks : Kts_invoke(k)
    \/ Kts_translate_cached
    \/ Kts_translate_copy
    \/ Kts_translate_target
    \/ Kts_translate_resume
    \/ Kts_translate_finish
    \/ Kts_again

SpecKts == KtsInit /\ [][NextKts]_vars

(***************************************************************************)
(* Claims about Kts.                                                       *)
(***************************************************************************)
Successors(body, S) ==
    S \cup UNION {Range(visit_successors(body.blocks[b].terminator)) : b \in S}

RECURSIVE ReachFrom(_, _)
ReachFrom(body, S) ==
    IF Successors(body, S) = S THEN S ELSE ReachFrom(body, Successors(body, S))

\* the blocks reachable from k through terminator targets
Reach(body, k) == ReachFrom(body, {k})

Injective(f) == \A a, b \in DOMAIN f : f[a] = f[b] => a = b

MaxTargets(body) ==
    LET lens == {Len(visit_targets(body.blocks[b].terminator)) : b \in DOMAIN body.blocks}
    IN  CHOOSE m \in lens : \A l \in lens : l <= m

\* What is left to do of the running invocation: the source blocks not yet
\* copied weigh more than any frame; a frame weighs its untranslated targets.
KtsFrameWork(i) ==
    LET fr == kts_stack[i]
        p  == Len(visit_targets(kts_src.blocks[fr.k].terminator)) - Len(fr.done)
    IN  IF fr.pc = "call" THEN 1
        ELSE IF i = Len(kts_stack) /\ kts_ret = RNone THEN 3 * p + 1
        ELSE 3 * p - 1

RECURSIVE KtsWork(_)
KtsWork(i) == IF i = 0 THEN 0 ELSE KtsFrameWork(i) + KtsWork(i - 1)

KtsRank ==
    Cardinality(DOMAIN kts_src.blocks \ DOMAIN kts_blocks)
        * (3 * MaxTargets(kts_src) + 2)
    + KtsWork(Len(kts_stack))

KtsReturned == kts_stack = <<>> /\ kts_ret.tag = "Ok" /\ kts_first # 0

\* exactly one destination block per source block reachable from the block
\* translate was called on, recorded in Kts.blocks
KtsOnePerBlock ==
    KtsReturned =>
        /\ DOMAIN kts_blocks = Reach(kts_src, kts_first)
        /\ Injective(kts_blocks)
        /\ Range(kts_blocks) = 2..Len(kts_dst.blocks)
        /\ kts_ret.val = kts_blocks[kts_first] \/ kts_more

\* every step of a running invocation brings it nearer its return
KtsStepDecreases == kts_stack # <<>> => KtsRank' < KtsRank

\* a call on a translated block returns the recorded block and leaves the
\* destination body and the map as they are
KtsRevisitAddsNothing ==
    (kts_stack # <<>> /\ Top(kts_stack).pc = "call"
        /\ Top(kts_stack).k \in DOMAIN kts_blocks) =>
        /\ kts_dst' = kts_dst
        /\ kts_blocks' = kts_blocks
        /\ kts_ret' = ROk(kts_blocks[Top(kts_stack).k])

\* C5: Kts::translate terminates on every finite CFG, cyclic ones included;
\* it creates exactly one destination block per source block reachable from
\* k and records it in Kts.blocks; translating a translated block again
\* returns the recorded block and adds no block, value or edge to dst.
C5_KtsTerminatesOnePerBlock ==
    /\ []KtsOnePerBlock
    /\ [][KtsStepDecreases /\ KtsRevisitAddsNothing]_vars

Cyclic(body) ==
    \E b \in DOMAIN body.blocks :
        b \in UNION {Reach(body, s) :
                        s \in Range(visit_successors(body.blocks[b].terminator))}

\* a cyclic three-block body was translated and one of its blocks revisited
C5_Witness ==
    /\ KtsReturned
    /\ kts_round = 1
    /\ kts_more
    /\ Cyclic(kts_src)
    /\ Cardinality(DOMAIN kts_blocks) = 3

KtsTwice == kts_round = 2 /\ KtsReturned /\ kts_first = kts_src.entry /\ ~kts_more

UnusedInBlock(body, b, i) ==
    \A u \in Range(body.blocks[b].insts) \cup {0} :
        i \notin IF u = 0 THEN Terminator_visit_uses(body.blocks[b].terminator)
                  ELSE ValueDef_visit_uses(body.values[u])

NothingPruned(body, b) ==
    \A i \in Range(body.blocks[b].insts) :
        ~(value_is_pure(i, body) /\ UnusedInBlock(body, b, i))

MaxFuel == 2

FtsFrame(fn, k, fuel) ==
    [fn |-> fn, pc |-> "call", k |-> k, fuel |-> fuel, new |-> 0, new_f |-> 0,
     s |-> 0, dst |-> 0, state |-> EmptyMap, f |-> EmptyMap, done |-> <<>>]

\* the translate frame whose dst and f the top of the stack works on
Owner(stack) ==
    CHOOSE i \in DOMAIN stack :
        /\ stack[i].fn = "translate" /\ stack[i].pc = "term"
        /\ \A j \in DOMAIN stack :
              (stack[j].fn = "translate" /\ stack[j].pc = "term") => j <= i

FtsTop(fn, pc) ==
    /\ fts_stack # <<>>
    /\ Top(fts_stack).fn = fn
    /\ Top(fts_stack).pc = pc

\* an error of a `?` unwinds every call; a todo!() panics
FtsAbort(status) ==
    /\ fts_stack' = <<>>
    /\ fts_ret' = IF status = "panic" THEN RPanic ELSE RErr

FtsModule(src) ==
    [signatures |-> <<SigFunc(ParamTypes(src.blocks[src.entry]), src.rets)>>,
     funcs |-> <<FuncDecl_Body(1, "f", src)>>]

FtsInit ==
    /\ fts_f \in SourceBodies
    /\ fts_fuel \in 0..MaxFuel
    /\ fts_module = FtsModule(fts_f)
    /\ fts_blocks = EmptyMap
    /\ fts_stack = <<>>
    /\ fts_ret = RNone
    /\ fts_phase = "idle"
    /\ fts_steps = 0
    /\ KtsOff
    /\ CopOff
    /\ PassesOff("")

\* go2 (fts.rs 398-400) through Module::try_take_per_func_body (ir/module.rs
\* 411-427) takes the body out of its slot and calls run_once, which calls
\* translate on the entry with a new Fts (fts.rs 371-377).  The bodies of
\* SourceBodies are in max-SSA form already.
Fts_run_once ==
    /\ fts_phase = "idle"
    /\ fts_module' = [fts_module EXCEPT !.funcs[1] = FuncDecl_None]
    /\ fts_stack' = <<FtsFrame("translate", fts_f.entry, 0)>>
    /\ fts_phase' = "running"
    /\ UNCHANGED <<fts_f, fts_fuel, fts_blocks, fts_ret, notFts>>
    /\ fts_steps' = fts_steps + 1

\* fts.rs 190-192
Fts_translate_cached ==
    /\ FtsTop("translate", "call")
    /\ Top(fts_stack).k \in DOMAIN fts_blocks
    /\ fts_stack' = Pop(fts_stack)
    /\ fts_ret' = ROk(fts_blocks[Top(fts_stack).k])
    /\ UNCHANGED <<fts_f, fts_fuel, fts_module, fts_blocks, fts_phase, notFts>>
    /\ fts_steps' = fts_steps + 1

\* fts.rs 193-258 and the operand look-up of 324-327
Fts_translate_copy ==
    /\ FtsTop("translate", "call")
    /\ Top(fts_stack).k \notin DOMAIN fts_blocks
    /\ LET fr    == Top(fts_stack)
           k     == fr.k
           ns    == new_sig(fts_module,
                            SigFunc(ParamTypes(fts_f.blocks[k]), fts_f.rets))
           m1    == [ns.module EXCEPT !.funcs = Append(@, FuncDecl_None)]
           new_f == Len(m1.funcs)
           d0    == FunctionBody_new(m1, ns.sig)
           new   == d0.entry
           acc   == copy_insts([dst |-> d0,
                                state |-> param_state(fts_f.blocks[k], d0.blocks[new]),
                                status |-> "ok"],
                               new, fts_f, k, fts_f.blocks[k].insts)
           early == early_operand(fts_f.blocks[k].terminator)
       IN  /\ fts_module' = m1
           /\ fts_blocks' = cache_insert(fts_blocks, k, new_f)
           /\ IF acc.status # "ok"
              THEN FtsAbort(acc.status)
              ELSE IF early # 0 /\ early \notin DOMAIN acc.state
              THEN FtsAbort("err")
              ELSE /\ fts_stack' = Append(Pop(fts_stack),
                          [fr EXCEPT !.pc = "term", !.new = new, !.new_f = new_f,
                                     !.s = ns.sig, !.dst = acc.dst,
                                     !.state = acc.state])
                   /\ fts_ret' = RNone
    /\ UNCHANGED <<fts_f, fts_fuel, fts_phase, notFts>>
    /\ fts_steps' = fts_steps + 1

\* the call a target of translate's terminator makes: translate for a Br
\* (fts.rs 294) and without fuel (261), else fueled_translate (282)
translate_callee_always_inlining(t, fuel, block) ==
    FtsFrame("fueled", block, fuel + 1)
translate_callee(t, fuel, block) ==
    IF t.kind = "Br" \/ fuel = 0
    THEN FtsFrame("translate", block, 0)
    ELSE FtsFrame("fueled", block, fuel)

Fts_translate_target ==
    /\ FtsTop("translate", "term")
    /\ fts_ret = RNone
    /\ LET fr == Top(fts_stack)
           t  == fts_f.blocks[fr.k].terminator
           ts == visit_targets(t)
       IN  /\ Len(fr.done) < Len(ts)
           /\ fts_stack' = Append(fts_stack,
                  translate_callee(t, fts_fuel, ts[Len(fr.done) + 1].block))
    /\ UNCHANGED <<fts_f, fts_fuel, fts_module, fts_blocks, fts_ret, fts_phase, notFts>>
    /\ fts_steps' = fts_steps + 1

\* fts.rs 259-291 after the call returned: without fuel a shim block that
\* tail-calls the function, else the returned block with the arguments;
\* for a Br (293-301) the function and the arguments of the ReturnCall
Fts_translate_resume ==
    /\ FtsTop("translate", "term")
    /\ fts_ret.tag = "Ok"
    /\ LET fr   == Top(fts_stack)
           t    == fts_f.blocks[fr.k].terminator
           tg   == visit_targets(t)[Len(fr.done) + 1]
           args == filter_map_get(tg.args, fr.state)
           d1   == add_block(fr.dst)
           shim == Len(d1.blocks)
           d2   == set_terminator(d1, shim, TReturnCall(fts_ret.val, args))
       IN  fts_stack' = Append(Pop(fts_stack),
               IF t.kind # "Br" /\ fts_fuel = 0
               THEN [fr EXCEPT !.dst = d2,
                               !.done = Append(@, BlockTarget(shim, <<>>))]
               ELSE [fr EXCEPT !.done = Append(@, BlockTarget(fts_ret.val, args))])
    /\ fts_ret' = RNone
    /\ UNCHANGED <<fts_f, fts_fuel, fts_module, fts_blocks, fts_phase, notFts>>
    /\ fts_steps' = fts_steps + 1

\* the terminator translate gives the entry block (fts.rs 292-365): a Br
\* becomes a ReturnCall of the target's function
translate_terminator_keeping_Br(t, state, done) ==
    IF t.kind = "Br" THEN TBr(BlockTarget(1, done[1].args))
    ELSE rebuild_terminator(t, state, done)
translate_terminator(t, state, done) ==
    IF t.kind = "Br" THEN TReturnCall(done[1].block, done[1].args)
    ELSE rebuild_terminator(t, state, done)

\* fts.rs 292-367, then 190-192 on the next turn of the loop
Fts_translate_finish ==
    /\ FtsTop("translate", "term")
    /\ fts_ret = RNone
    /\ LET fr   == Top(fts_stack)
           t    == fts_f.blocks[fr.k].terminator
           late == late_operand(t)
           dst  == set_terminator(fr.dst, fr.new,
                                  translate_terminator(t, fr.state, fr.done))
       IN  /\ Len(fr.done) = Len(visit_targets(t))
           /\ IF late # 0 /\ late \notin DOMAIN fr.state
              THEN FtsAbort("err") /\ fts_module' = fts_module
              ELSE /\ fts_module' =
                        [fts_module EXCEPT !.funcs[fr.new_f] =
                            FuncDecl_Body(fr.s, Block_to_string(fr.k), dst)]
                   /\ fts_stack' = Pop(fts_stack)
                   /\ fts_ret' = ROk(fts_blocks[fr.k])
    /\ UNCHANGED <<fts_f, fts_fuel, fts_blocks, fts_phase, notFts>>
    /\ fts_steps' = fts_steps + 1

\* fts.rs 26-28: the map f, whatever the fuel of the call
Fts_fueled_cached ==
    /\ FtsTop("fueled", "call")
    /\ Top(fts_stack).k \in DOMAIN fts_stack[Owner(fts_stack)].f
    /\ fts_stack' = Pop(fts_stack)
    /\ fts_ret' = ROk(fts_stack[Owner(fts_stack)].f[Top(fts_stack).k])
    /\ UNCHANGED <<fts_f, fts_fuel, fts_module, fts_blocks, fts_phase, notFts>>
    /\ fts_steps' = fts_steps + 1

\* fts.rs 29-30: no fuel is left; the block becomes a function of its own
Fts_fueled_spill ==
    /\ FtsTop("fueled", "call")
    /\ Top(fts_stack).k \notin DOMAIN fts_stack[Owner(fts_stack)].f
    /\ Top(fts_stack).fuel = 0
    /\ fts_stack' = Append(Append(Pop(fts_stack), [Top(fts_stack) EXCEPT !.pc = "shim"]),
                           FtsFrame("translate", Top(fts_stack).k, 0))
    /\ UNCHANGED <<fts_f, fts_fuel, fts_module, fts_blocks, fts_ret, fts_phase, notFts>>
    /\ fts_steps' = fts_steps + 1

\* fts.rs 31-44: the shim block, with the blockparams of the source block,
\* tail-calls the function; it is not recorded in f
Fts_fueled_shim ==
    /\ FtsTop("fueled", "shim")
    /\ fts_ret.tag = "Ok"
    /\ LET fr   == Top(fts_stack)
           o    == Owner(fts_stack)
           d1   == add_block(fts_stack[o].dst)
           shim == Len(d1.blocks)
           d2   == add_blockparams(d1, shim, ParamTypes(fts_f.blocks[fr.k]))
           d3   == set_terminator(d2, shim,
                       TReturnCall(fts_ret.val, ParamValues(d2.blocks[shim])))
       IN  /\ fts_stack' = Pop([fts_stack EXCEPT ![o].dst = d3])
           /\ fts_ret' = ROk(shim)
    /\ UNCHANGED <<fts_f, fts_fuel, fts_module, fts_blocks, fts_phase, notFts>>
    /\ fts_steps' = fts_steps + 1

\* fts.rs 46-100 and the operand look-up of 138-141
Fts_fueled_copy ==
    /\ FtsTop("fueled", "call")
    /\ Top(fts_stack).k \notin DOMAIN fts_stack[Owner(fts_stack)].f
    /\ Top(fts_stack).fuel # 0
    /\ LET fr    == Top(fts_stack)
           k     == fr.k
           o     == Owner(fts_stack)
           d1    == add_block(fts_stack[o].dst)
           new   == Len(d1.blocks)
           d2    == add_blockparams(d1, new, ParamTypes(fts_f.blocks[k]))
           acc   == copy_insts([dst |-> d2,
                                state |-> param_state(fts_f.blocks[k], d2.blocks[new]),
                                status |-> "ok"],
                               new, fts_f, k, fts_f.blocks[k].insts)
           early == early_operand(fts_f.blocks[k].terminator)
       IN  IF acc.status # "ok"
           THEN FtsAbort(acc.status)
           ELSE IF early # 0 /\ early \notin DOMAIN acc.state
           THEN FtsAbort("err")
           ELSE /\ fts_stack' =
                     Append(Pop([fts_stack EXCEPT
                                    ![o].dst = acc.dst,
                                    ![o].f = cache_insert(@, k, new)]),
                            [fr EXCEPT !.pc = "term", !.new = new,
                                       !.state = acc.state])
                /\ fts_ret' = RNone
    /\ UNCHANGED <<fts_f, fts_fuel, fts_module, fts_blocks, fts_phase, notFts>>
    /\ fts_steps' = fts_steps + 1

\* fts.rs 109: the recursive call for the next target, with one fuel less
Fts_fueled_target ==
    /\ FtsTop("fueled", "term")
    /\ fts_ret = RNone
    /\ LET fr == Top(fts_stack)
           ts == visit_targets(fts_f.blocks[fr.k].terminator)
       IN  /\ Len(fr.done) < Len(ts)
           /\ fts_stack' = Append(fts_stack,
                  FtsFrame("fueled", ts[Len(fr.done) + 1].block, fr.fuel - 1))
    /\ UNCHANGED <<fts_f, fts_fuel, fts_module, fts_blocks, fts_ret, fts_phase, notFts>>
    /\ fts_steps' = fts_steps + 1

\* fts.rs 101-111: the recursive call returned; the target is rebuilt
Fts_fueled_resume ==
    /\ FtsTop("fueled", "term")
    /\ fts_ret.tag = "Ok"
    /\ LET fr == Top(fts_stack)
           tg == visit_targets(fts_f.blocks[fr.k].terminator)[Len(fr.done) + 1]
           bt == BlockTarget(fts_ret.val, filter_map_get(tg.args, fr.state))
       IN  fts_stack' = Append(Pop(fts_stack), [fr EXCEPT !.done = Append(@, bt)])
    /\ fts_ret' = RNone
    /\ UNCHANGED <<fts_f, fts_fuel, fts_module, fts_blocks, fts_phase, notFts>>
    /\ fts_steps' = fts_steps + 1

\* fts.rs 112-180, then 26-28 on the next turn of the loop
Fts_fueled_finish ==
    /\ FtsTop("fueled", "term")
    /\ fts_ret = RNone
    /\ LET fr   == Top(fts_stack)
           o    == Owner(fts_stack)
           t    == fts_f.blocks[fr.k].terminator
           late == late_operand(t)
           dst  == set_terminator(fts_stack[o].dst, fr.new,
                                  rebuild_terminator(t, fr.state, fr.done))
       IN  /\ Len(fr.done) = Len(visit_targets(t))
           /\ IF late # 0 /\ late \notin DOMAIN fr.state
              THEN FtsAbort("err")
              ELSE /\ fts_stack' = Pop([fts_stack EXCEPT ![o].dst = dst])
                   /\ fts_ret' = ROk(fts_stack[o].f[fr.k])
    /\ UNCHANGED <<fts_f, fts_fuel, fts_module, fts_blocks, fts_phase, notFts>>
    /\ fts_steps' = fts_steps + 1

\* fts.rs 378-395: a new entry block with the parameters of the old one
\* tail-calls the function k of the old entry
run_once_wrap_keeping_entry(f, k) ==
    LET f1 == add_block(f)
        e2 == Len(f1.blocks)
        f2 == add_blockparams(f1, e2, ParamTypes(f.blocks[f.entry]))
    IN  set_terminator(f2, e2, TReturnCall(k, ParamValues(f2.blocks[e2])))
run_once_wrap(f, k) ==
    LET f1 == add_block(f)
        e2 == Len(f1.blocks)
        f2 == add_blockparams(f1, e2, ParamTypes(f.blocks[f.entry]))
    IN  set_terminator([f2 EXCEPT !.entry = e2], e2,
                       TReturnCall(k, ParamValues(f2.blocks[e2])))

\* fts.rs 377-396 and ir/module.rs 421-424: on an error run_once returns
\* it and leaves the body as it is.  The body goes back into its slot.
Fts_run_once_return ==
    /\ fts_phase = "running"
    /\ fts_stack = <<>>
    /\ fts_ret.tag \in {"Ok", "Err"}
    /\ LET f == IF fts_ret.tag = "Ok" THEN run_once_wrap(fts_f, fts_ret.val)
                ELSE fts_f
       IN  /\ fts_f' = f
           /\ fts_module' = [fts_module EXCEPT !.funcs[1] = FuncDecl_Body(1, "f", f)]
    /\ fts_phase' = IF fts_ret.tag = "Ok" THEN "done" ELSE "failed"
    /\ UNCHANGED <<fts_fuel, fts_blocks, fts_stack, fts_ret, notFts>>
    /\ fts_steps' = fts_steps + 1

NextFts ==
    \/ Fts_run_once
    \/ Fts_translate_cached
    \/ Fts_translate_copy
    \/ Fts_translate_target
    \/ Fts_translate_resume
    \/ Fts_translate_finish
    \/ Fts_fueled_cached
    \/ Fts_fueled_spill
    \/ Fts_fueled_shim
    \/ Fts_fueled_copy
    \/ Fts_fueled_target
    \/ Fts_fueled_resume
    \/ Fts_fueled_finish
    \/ Fts_run_once_return

SpecFts == FtsInit /\ [][NextFts]_vars

(***************************************************************************)
(* Claims about Fts.                                                       *)
(***************************************************************************)
\* translate, called by run_once on the entry, has returned a function
FtsTranslated == fts_phase = "running" /\ fts_stack = <<>> /\ fts_ret.tag = "Ok"

\* the functions Fts has made and filled in
Produced ==
    {i \in DOMAIN fts_module.funcs : i > 1 /\ fts_module.funcs[i].kind = "Body"}

\* C7: with fuel = 0, Fts::translate started at a block k creates exactly
\* one new function per source block reachable from k: Fts.blocks is a
\* bijection between the reachable source blocks and the created functions,
\* also when the graph has loops.
C7_FtsOneFunctionPerBlock ==
    (FtsTranslated /\ fts_fuel = 0) =>
        /\ DOMAIN fts_blocks = Reach(fts_f, fts_f.entry)
        /\ Injective(fts_blocks)
        /\ Range(fts_blocks) = 2..Len(fts_module.funcs)
        /\ Produced = 2..Len(fts_module.funcs)
        /\ \A b \in DOMAIN fts_blocks :
              fts_module.funcs[fts_blocks[b]].name = Block_to_string(b)
        /\ fts_ret.val = fts_blocks[fts_f.entry]

\* the three blocks of a body with a loop were split without fuel
C7_Witness ==
    /\ FtsTranslated
    /\ fts_fuel = 0
    /\ Cyclic(fts_f)
    /\ Cardinality(DOMAIN fts_blocks) = 3
    /\ Len(fts_module.funcs) = 4

AllTerminated(f) == \A b \in DOMAIN f.blocks : f.blocks[b].terminator.kind # "None"

\* the source blocks: run_once adds its new entry block after them
SourceTerminated ==
    \A b \in DOMAIN fts_f.blocks :
        (fts_phase = "done" /\ b = fts_f.entry) \/ fts_f.blocks[b].terminator.kind # "None"

TerminatorKinds(i) ==
    {fts_module.funcs[i].body.blocks[b].terminator.kind :
        b \in DOMAIN fts_module.funcs[i].body.blocks}

EntryTerminator(i) ==
    fts_module.funcs[i].body.blocks[fts_module.funcs[i].body.entry].terminator

IsSpill(body, b) ==
    /\ body.blocks[b].insts = <<>>
    /\ body.blocks[b].terminator.kind = "ReturnCall"
    /\ body.blocks[b].terminator.func \in Range(fts_blocks)

\* a path of n steps from b through copied blocks
RECURSIVE CopiedPath(_, _, _)
CopiedPath(body, b, n) ==
    \/ n = 0
    \/ \E c \in Range(visit_successors(body.blocks[b].terminator)) :
          ~IsSpill(body, c) /\ CopiedPath(body, c, n - 1)

\* C9: with fuel = k no path from the entry block of a produced function
\* goes through more than k copied successor blocks before it tail-calls
\* another produced function or leaves the function.
C9_FtsFuelBoundsInlining ==
    \A i \in Produced :
        ~CopiedPath(fts_module.funcs[i].body, fts_module.funcs[i].body.entry,
                    fts_fuel + 1)

\* entry branches to body and to exit, body branches back to entry
ThreeBlockLoop(f, body, exit) ==
    /\ {body, exit} = {2, 3}
    /\ f.blocks[1].terminator.kind = "CondBr"
    /\ {f.blocks[1].terminator.if_true.block,
        f.blocks[1].terminator.if_false.block} = {body, exit}
    /\ f.blocks[body].terminator.kind = "Br"
    /\ f.blocks[body].terminator.target.block = 1
    /\ visit_targets(f.blocks[exit].terminator) = <<>>

\* run_once has split a three-block loop without fuel
FtsLoopSplit(body, exit) ==
    /\ fts_phase = "done"
    /\ fts_fuel = 0
    /\ Len(fts_f.blocks) = 4
    /\ ThreeBlockLoop(fts_f, body, exit)

\* the module holds the wrapper, which tail-calls the function of the old
\* entry, and three more functions
WrapperAndThree ==
    /\ Len(fts_module.funcs) = 4
    /\ Produced = {2, 3, 4}
    /\ Range(fts_blocks) = {2, 3, 4}
    /\ fts_module.funcs[1].kind = "Body"
    /\ EntryTerminator(1).kind = "ReturnCall"
    /\ EntryTerminator(1).func = fts_blocks[1]

\* C10 as stated: the wrapper and three new functions, and the entry block
\* of each of the three ends in a ReturnCall.
C10_FtsLoopAllReturnCall ==
    \A body, exit \in {2, 3} :
        FtsLoopSplit(body, exit) =>
            /\ WrapperAndThree
            /\ \A i \in {2, 3, 4} : EntryTerminator(i).kind = "ReturnCall"

ShimTo(i, target, func) ==
    LET b == fts_module.funcs[i].body.blocks[target.block]
    IN  /\ target.args = <<>>
        /\ b.terminator.kind = "ReturnCall"
        /\ b.terminator.func = func

\* C10 as amended: the wrapper and three new functions; the entry block of
\* body' ends in a ReturnCall of entry'; the entry block of entry' ends in a
\* CondBr whose targets are blocks ending in a ReturnCall of the functions
\* of the source targets; the entry block of exit' ends as the source exit.
C10_FtsLoopShape ==
    \A body, exit \in {2, 3} :
        FtsLoopSplit(body, exit) =>
            /\ WrapperAndThree
            /\ EntryTerminator(fts_blocks[body]).kind = "ReturnCall"
            /\ EntryTerminator(fts_blocks[body]).func = fts_blocks[1]
            /\ EntryTerminator(fts_blocks[1]).kind = "CondBr"
            /\ ShimTo(fts_blocks[1], EntryTerminator(fts_blocks[1]).if_true,
                      fts_blocks[fts_f.blocks[1].terminator.if_true.block])
            /\ ShimTo(fts_blocks[1], EntryTerminator(fts_blocks[1]).if_false,
                      fts_blocks[fts_f.blocks[1].terminator.if_false.block])
            /\ EntryTerminator(fts_blocks[exit]).kind
                  = fts_f.blocks[exit].terminator.kind

\* the loop was split and its exit block returns
C10_Witness ==
    /\ FtsLoopSplit(2, 3)
    /\ fts_f.blocks[3].terminator.kind = "Return"
    /\ EntryTerminator(fts_blocks[3]).kind = "Return"

(***************************************************************************)
(* The module copier (copying/module.rs) and tree_shake.  Entities are     *)
(* numbered from 1; 0 is Func::invalid() and the None of an Option.  The   *)
(* types of the model are value types, which translate_type (module.rs    *)
(* 309-318) leaves as they are.                                            *)
(***************************************************************************)
OpCallIndirect(sig_index, table_index) ==
    [name |-> "CallIndirect", index |-> table_index, sig_index |-> sig_index]

ImportKind(variant, id) == [import |-> variant, id |-> id]
ExportKind(variant, id) == [export |-> variant, id |-> id]
Import(module, name, kind) == [module |-> module, name |-> name, kind |-> kind]
Export(name, kind) == [name |-> name, kind |-> kind]

x2i(x) == ImportKind(x.export, x.id)
i2x(i) == ExportKind(i.import, i.id)

\* Module::empty (ir/module.rs 300-316)
Module_empty ==
    [funcs |-> <<>>, signatures |-> <<>>, globals |-> <<>>, tables |-> <<>>,
     imports |-> <<>>, exports |-> <<>>, memories |-> <<>>, start_func |-> 0]

TableData(has_func_elements, func_elements) ==
    [ty |-> "FuncRef", has_func_elements |-> has_func_elements,
     func_elements |-> func_elements]
MemoryData == [initial_pages |-> 1]
GlobalData == [ty |-> "I32", value |-> 0, mutable |-> TRUE]

\* ImportBehavior and the resolver of tree_shake (module.rs 127, 178-181)
Bind(kind) == [tag |-> "Bind", kind |-> kind]
Passthrough(module, name) == [tag |-> "Passthrough", module |-> module, name |-> name]
NoImport == [tag |-> "None"]
get_import(m, n) == Passthrough(m, n)

\* Copier::resolve_import: the first import of src of this kind decides
resolve_import(src, a) ==
    IF \E n \in DOMAIN src.imports : src.imports[n].kind = a
    THEN LET n == CHOOSE n \in DOMAIN src.imports :
                      /\ src.imports[n].kind = a
                      /\ \A o \in DOMAIN src.imports :
                            src.imports[o].kind = a => n <= o
         IN  get_import(src.imports[n].module, src.imports[n].name)
    ELSE NoImport

\* module.rs 255-261: the first import of dest with these names, 0 if none
named_import(dest, j) ==
    IF \E n \in DOMAIN dest.imports :
          dest.imports[n].module = j.module /\ dest.imports[n].name = j.name
    THEN CHOOSE n \in DOMAIN dest.imports :
            /\ dest.imports[n].module = j.module /\ dest.imports[n].name = j.name
            /\ \A o \in DOMAIN dest.imports :
                  (dest.imports[o].module = j.module /\ dest.imports[o].name = j.name)
                      => n <= o
    ELSE 0

Found(kind) == [tag |-> "found", kind |-> kind]
Missing == [tag |-> "missing"]

\* module.rs 250-264: what translate_import returns before it translates
import_lookup(src, dest, cache, a) ==
    LET r == resolve_import(src, a) IN
    IF r.tag = "Bind" THEN Found(r.kind)
    ELSE IF r.tag = "Passthrough" /\ named_import(dest, r) # 0
    THEN Found(dest.imports[named_import(dest, r)].kind)
    ELSE IF a \in DOMAIN cache THEN Found(cache[a])
    ELSE Missing

\* module.rs 283-290: the result is cached, and imported if passed through
import_record(src, dest, a, c) ==
    LET r == resolve_import(src, a) IN
    IF r.tag = "Passthrough"
    THEN [dest EXCEPT !.imports = Append(@, Import(r.module, r.name, c))]
    ELSE dest

RECURSIVE translate_sig(_, _, _, _)

\* Copier::translate_type (module.rs 309-318): a reference to a signature
\* is translated, every other type is left as it is
translate_type(src, dest, sig_cache, ty) ==
    IF ty.ty = "Heap" /\ ty.heap.value.kind = "Sig"
    THEN LET ts == translate_sig(src, dest, sig_cache, ty.heap.value.sig_index)
         IN  [dest |-> ts.dest, sig_cache |-> ts.sig_cache,
              ty |-> [ty EXCEPT !.heap.value.sig_index = ts.sig]]
    ELSE [dest |-> dest, sig_cache |-> sig_cache, ty |-> ty]

\* the types of a list translated in order
RECURSIVE translate_types(_, _, _, _)
translate_types(src, dest, sig_cache, tys) ==
    IF tys = <<>> THEN [dest |-> dest, sig_cache |-> sig_cache, tys |-> <<>>]
    ELSE LET h == translate_type(src, dest, sig_cache, Head(tys))
             t == translate_types(src, h.dest, h.sig_cache, Tail(tys))
         IN  [dest |-> t.dest, sig_cache |-> t.sig_cache, tys |-> <<h.ty>> \o t.tys]

\* the fields of a struct or the element of an array: only StorageType::Val
\* holds a type to translate
RECURSIVE translate_fields(_, _, _, _)
translate_fields(src, dest, sig_cache, fields) ==
    IF fields = <<>> THEN [dest |-> dest, sig_cache |-> sig_cache, fields |-> <<>>]
    ELSE LET f == Head(fields)
             h == IF f.value.storage = "Val"
                  THEN translate_type(src, dest, sig_cache, f.value.val)
                  ELSE [dest |-> dest, sig_cache |-> sig_cache, ty |-> f.value.val]
             t == translate_fields(src, h.dest, h.sig_cache, Tail(fields))
         IN  [dest |-> t.dest, sig_cache |-> t.sig_cache,
              fields |-> <<[f EXCEPT !.value.val = h.ty]>> \o t.fields]

\* module.rs 349 left out: the reserved slot keeps SignatureData::None
sig_store_skipped(dest, k, d) == dest

\* module.rs 349: self.dest.signatures[k] = d
sig_store(dest, k, d) == [dest EXCEPT !.signatures[k] = d]

\* Copier::translate_sig (module.rs 319-351): a cached signature, or a slot
\* reserved as SignatureData::None and cached before the types of the
\* signature are translated
translate_sig(src, dest, sig_cache, sg) ==
    IF sg \in DOMAIN sig_cache
    THEN [dest |-> dest, sig_cache |-> sig_cache, sig |-> sig_cache[sg]]
    ELSE LET k  == Len(dest.signatures) + 1
             d0 == [dest EXCEPT !.signatures = Append(@, SigNone)]
             c0 == (sg :> k) @@ sig_cache
             d  == src.signatures[sg]
         IN  CASE d.kind = "Func" ->
                      LET ps == translate_types(src, d0, c0, d.params)
                          rs == translate_types(src, ps.dest, ps.sig_cache, d.returns)
                      IN  [dest |-> sig_store(rs.dest, k, SigFunc(ps.tys, rs.tys)),
                           sig_cache |-> rs.sig_cache, sig |-> k]
               [] d.kind = "Struct" ->
                      LET fs == translate_fields(src, d0, c0, d.fields)
                      IN  [dest |-> sig_store(fs.dest, k, SigStruct(fs.fields)),
                           sig_cache |-> fs.sig_cache, sig |-> k]
               [] d.kind = "Array" ->
                      LET fs == translate_fields(src, d0, c0, <<d.ty>>)
                      IN  [dest |-> sig_store(fs.dest, k, SigArray(fs.fields[1])),
                           sig_cache |-> fs.sig_cache, sig |-> k]
               [] d.kind = "None" ->
                      [dest |-> sig_store(d0, k, d), sig_cache |-> c0, sig |-> k]

\* add_start with the two calls exchanged: the previous start function
\* is called first and tf is tail-called
add_start_behind(m, tf) ==
    LET ns == new_sig(m, SigFunc(<<>>, <<>>))
        m1 == ns.module
        f0 == FunctionBody_new(m1, ns.sig)
        f1 == IF m1.start_func # 0
              THEN add_op(f0, f0.entry, Op("Call", m1.start_func), <<>>, <<>>)
              ELSE f0
        f2 == set_terminator(f1, f1.entry, TReturnCall(tf, <<>>))
    IN  [status |-> "ok",
         module |-> [m1 EXCEPT
             !.funcs = Append(@, FuncDecl_Body(ns.sig, "start", f2)),
             !.start_func = Len(m1.funcs) + 1]]

\* util::add_start: a function "start" that calls tf, then the old start
add_start(m, tf) ==
    LET ns == new_sig(m, SigFunc(<<>>, <<>>))
        m1 == ns.module
        f0 == FunctionBody_new(m1, ns.sig)
        f1 == add_op(f0, f0.entry, Op("Call", tf), <<>>,
                     m1.signatures[m1.funcs[tf].sig].returns)
        f2 == set_terminator(f1, f1.entry,
                  IF m1.start_func # 0 THEN TReturnCall(m1.start_func, <<>>)
                  ELSE TReturn(<<>>))
    IN  IF m1.funcs[tf].kind = "None"
        THEN [status |-> "panic", module |-> m1]
        ELSE [status |-> "ok",
              module |-> [m1 EXCEPT
                  !.funcs = Append(@, FuncDecl_Body(ns.sig, "start", f2)),
                  !.start_func = Len(m1.funcs) + 1]]

\* the entity references internal_translate_func rewrites, in its order:
\* per value the memory (op_traits.rs 3204-3244), then the indices of the
\* operator (module.rs 401-443); then per block the terminator (450-463)
MemoryOps == {"I32Load", "I32Store", "MemorySize", "MemoryGrow"}
TableOps == {"TableGet", "TableSet", "TableGrow", "TableSize"}

Ref(field, variant) == [field |-> field, variant |-> variant]

value_refs(def) ==
    IF def.kind # "Operator" THEN <<>>
    ELSE CASE def.op.name \in MemoryOps -> <<Ref("index", "Memory")>>
           [] def.op.name \in {"Call", "RefFunc"} -> <<Ref("index", "Func")>>
           [] def.op.name = "CallRef" -> <<Ref("index", "Sig")>>
           [] def.op.name = "CallIndirect" ->
                <<Ref("sig_index", "Sig"), Ref("index", "Table")>>
           [] def.op.name \in {"GlobalGet", "GlobalSet"} -> <<Ref("index", "Global")>>
           [] def.op.name \in TableOps -> <<Ref("index", "Table")>>
           [] OTHER -> <<>>

terminator_refs(t) ==
    CASE t.kind = "ReturnCall" -> <<Ref("func", "Func")>>
      [] t.kind = "ReturnCallIndirect" -> <<Ref("sig", "Sig"), Ref("table", "Table")>>
      [] t.kind = "ReturnCallRef" -> <<Ref("sig", "Sig")>>
      [] OTHER -> <<>>

Located(loc, at, refs) ==
    [i \in DOMAIN refs |->
        [loc |-> loc, at |-> at, field |-> refs[i].field, variant |-> refs[i].variant]]

RECURSIVE value_items(_, _)
value_items(body, v) ==
    IF v > Len(body.values) THEN <<>>
    ELSE Located("value", v, value_refs(body.values[v])) \o value_items(body, v + 1)

RECURSIVE block_items(_, _)
block_items(body, k) ==
    IF k > Len(body.blocks) THEN <<>>
    ELSE Located("block", k, terminator_refs(body.blocks[k].terminator))
            \o block_items(body, k + 1)

func_items(decl) ==
    IF decl.kind = "Body" THEN value_items(decl.body, 1) \o block_items(decl.body, 1)
    ELSE <<>>

get_ref(body, item) ==
    IF item.loc = "value" THEN body.values[item.at].op[item.field]
    ELSE body.blocks[item.at].terminator[item.field]

set_ref(body, item, new) ==
    IF item.loc = "value" THEN [body EXCEPT !.values[item.at].op[item.field] = new]
    ELSE [body EXCEPT !.blocks[item.at].terminator[item.field] = new]

(***************************************************************************)
(* Source modules tree_shake is run on.  Every function has the signature  *)
(* () -> () and a body of one block.                                       *)
(***************************************************************************)
MaxFuncs == 2

RECURSIVE add_ops(_, _, _)
add_ops(body, block, ops) ==
    IF ops = <<>> THEN body
    ELSE add_ops(add_op(body, block, Head(ops)[1], Head(ops)[2], Head(ops)[3]),
                 block, Tail(ops))

UnitSigs == <<SigFunc(<<>>, <<>>)>>

MkDecl(name, ops, term) ==
    LET b0 == FunctionBody_new([signatures |-> UnitSigs], 1)
    IN  FuncDecl_Body(1, name, set_terminator(add_ops(b0, 1, ops), 1, term))

FuncShapes(n) ==
    {[k |-> "import", g |-> 0, name |-> nm] : nm \in {"x", "y"}}
    \cup {[k |-> "nop", g |-> 0, name |-> ""]}
    \cup {[k |-> kk, g |-> g, name |-> ""] :
            kk \in {"call", "reffunc", "returncall"}, g \in 1..n}

ShapeDecl(sh) ==
    CASE sh.k = "import"     -> FuncDecl_Import(1, sh.name)
      [] sh.k = "nop"        -> MkDecl("f", <<>>, TReturn(<<>>))
      [] sh.k = "call"       -> MkDecl("f", <<<<Op("Call", sh.g), <<>>, <<>>>>>>, TReturn(<<>>))
      [] sh.k = "reffunc"    -> MkDecl("f", <<<<Op("RefFunc", sh.g), <<>>, <<"FuncRef">>>>>>, TReturn(<<>>))
      [] sh.k = "returncall" -> MkDecl("f", <<>>, TReturnCall(sh.g, <<>>))

RECURSIVE ShapeImports(_, _)
ShapeImports(shapes, i) ==
    IF i > Len(shapes) THEN <<>>
    ELSE (IF shapes[i].k = "import"
          THEN <<Import("env", shapes[i].name, ImportKind("Func", i))>>
          ELSE <<>>) \o ShapeImports(shapes, i + 1)

MkModule(funcs, tables, memories, globals, imports, exports, start_func) ==
    [funcs |-> funcs, signatures |-> UnitSigs, globals |-> globals,
     tables |-> tables, imports |-> imports, exports |-> exports,
     memories |-> memories, start_func |-> start_func]

\* every choice of functions, with the first function exported, or the
\* first and the last, and any function or none as start function
ShapedModules ==
    {MkModule([i \in DOMAIN shapes |-> ShapeDecl(shapes[i])], <<>>, <<>>, <<>>,
              ShapeImports(shapes, 1),
              IF both
              THEN <<Export("a", ExportKind("Func", 1)),
                     Export("b", ExportKind("Func", Len(shapes)))>>
              ELSE <<Export("a", ExportKind("Func", 1))>>,
              start) :
        <<shapes, both, start>> \in
            {x \in (UNION {[1..n -> FuncShapes(n)] : n \in 1..MaxFuncs})
                        \X BOOLEAN \X (0..MaxFuncs) : x[3] <= Len(x[1])}}

Nop == MkDecl("f", <<>>, TReturn(<<>>))

\* S1: f0 is exported and calls f3; f1, f2, f4 are not referenced
ModuleS1 ==
    MkModule(<<MkDecl("f0", <<<<Op("Call", 4), <<>>, <<>>>>>>, TReturn(<<>>)), Nop, Nop, Nop, Nop>>,
             <<>>, <<>>, <<>>, <<>>,
             <<Export("f0", ExportKind("Func", 1))>>, 0)

\* a table whose element reads the table; the table is imported or not;
\* the exported function calls through it
ModuleTable(imported) ==
    MkModule(<<MkDecl("f", <<<<Op("I32Const", 0), <<>>, <<"I32">>>>,
                               <<OpCallIndirect(1, 1), <<1>>, <<>>>>>>, TReturn(<<>>)),
               MkDecl("g", <<<<Op("I32Const", 0), <<>>, <<"I32">>>>,
                               <<Op("TableGet", 1), <<1>>, <<"FuncRef">>>>>>,
                      TReturn(<<>>)),
               Nop>>,
             <<TableData(TRUE, <<2, 0>>), TableData(FALSE, <<>>)>>, <<>>, <<>>,
             IF imported THEN <<Import("env", "tbl", ImportKind("Table", 1))>>
             ELSE <<>>,
             <<Export("f", ExportKind("Func", 1)),
               Export("t", ExportKind("Table", 1)),
               Export("u", ExportKind("Table", 2))>>, 0)

\* a function and a memory imported under one name, a global, and a
\* function that uses them and tail-calls through the table
ModuleNames(memname) ==
    MkModule(<<FuncDecl_Import(1, "h"),
               MkDecl("f", <<<<Op("GlobalGet", 1), <<>>, <<"I32">>>>,
                               <<Op("I32Load", 1), <<1>>, <<"I32">>>>,
                               <<Op("Call", 1), <<>>, <<>>>>>>,
                      TReturnCallIndirect(1, 1, <<2>>)),
               MkDecl("r", <<<<Op("RefFunc", 3), <<>>, <<"FuncRef">>>>>>,
                      TReturnCallRef(1, <<1>>))>>,
             <<TableData(TRUE, <<3>>)>>, <<MemoryData>>, <<GlobalData>>,
             <<Import("env", "x", ImportKind("Func", 1)),
               Import("env", memname, ImportKind("Memory", 1))>>,
             <<Export("h", ExportKind("Func", 1)),
               Export("m", ExportKind("Memory", 1)),
               Export("f", ExportKind("Func", 2)),
               Export("g", ExportKind("Global", 1))>>, 0)

\* two functions imported under one name, and a function that calls both
ModuleTwins ==
    MkModule(<<FuncDecl_Import(1, "h1"), FuncDecl_Import(1, "h2"),
               MkDecl("f", <<<<Op("Call", 1), <<>>, <<>>>>,
                               <<Op("Call", 2), <<>>, <<>>>>>>, TReturn(<<>>))>>,
             <<>>, <<>>, <<>>,
             <<Import("env", "x", ImportKind("Func", 1)),
               Import("env", "x", ImportKind("Func", 2))>>,
             <<Export("f", ExportKind("Func", 3))>>, 0)

\* a function and a memory imported under one name, both exported
ModuleMixed ==
    MkModule(<<FuncDecl_Import(1, "h")>>, <<>>, <<MemoryData>>, <<>>,
             <<Import("env", "x", ImportKind("Func", 1)),
               Import("env", "x", ImportKind("Memory", 1))>>,
             <<Export("h", ExportKind("Func", 1)),
               Export("m", ExportKind("Memory", 1))>>, 0)

\* signatures that refer to themselves and to each other through typed
\* references: signature 1 is () -> (), signatures 2 and 3 are chosen; the
\* exported function calls through signature 2, calls an imported function
\* of signature 3 and tail-calls itself
SigRef(s) == TyHeap(WithNullable(HeapType("Sig", s), TRUE))

CyclicSignatures ==
    {<<SigFunc(<<>>, <<>>), sa, sb>> :
        sa \in {SigFunc(<<SigRef(2)>>, <<SigRef(3)>>),
                SigStruct(<<WithMutablility(StorageVal(SigRef(3)), TRUE)>>),
                SigArray(WithMutablility(StorageVal(SigRef(2)), FALSE)),
                SigNone},
        sb \in {SigFunc(<<SigRef(2)>>, <<>>),
                SigFunc(<<TyVal("I32")>>, <<SigRef(3)>>),
                SigStruct(<<WithMutablility(StorageVal(SigRef(2)), TRUE),
                            WithMutablility(StorageI8, FALSE)>>),
                SigNone}}

ModuleCyclic(sigs) ==
    [MkModule(<<MkDecl("f", <<<<Op("CallRef", 2), <<>>, <<>>>>,
                                <<Op("Call", 2), <<>>, <<>>>>>>,
                       TReturnCall(1, <<>>)),
                FuncDecl_Import(3, "h")>>,
              <<>>, <<>>, <<>>,
              <<Import("env", "h", ImportKind("Func", 2))>>,
              <<Export("f", ExportKind("Func", 1))>>, 0)
        EXCEPT !.signatures = sigs]

CopierModules ==
    ShapedModules
    \cup {ModuleS1, ModuleTable(FALSE), ModuleTable(TRUE),
          ModuleNames("x"), ModuleNames("y"), ModuleTwins, ModuleMixed}
    \cup {ModuleCyclic(sigs) : sigs \in CyclicSignatures}

(***************************************************************************)
(* The calls of the copier.  translate_import, internal_translate_func and *)
(* internal_translate_table call each other; the model keeps their stack.  *)
(* A translate_import frame is strict when it was called through one of    *)
(* the translate_Func, translate_Table, ... wrappers (module.rs 112-123),  *)
(* which bail out when the returned kind is of another variant.            *)
(***************************************************************************)
CopFrame(fn, a, strict) ==
    [fn |-> fn, pc |-> "call", a |-> a, strict |-> strict, dst |-> 0,
     decl |-> 0, items |-> <<>>, pos |-> 0]

CopTop(fn, pc) ==
    /\ cop_phase = "running"
    /\ cop_stack # <<>>
    /\ Top(cop_stack).fn = fn
    /\ Top(cop_stack).pc = pc

\* an error unwinds every call and tree_shake_via returns it; a panic ends
\* the program
CopAbort(status) ==
    /\ cop_stack' = <<>>
    /\ cop_ret' = IF status = "panic" THEN RPanic ELSE RErr
    /\ cop_phase' = status

CopReturn(val) ==
    /\ cop_stack' = Pop(cop_stack)
    /\ cop_ret' = ROk(val)
    /\ cop_phase' = cop_phase

\* translate_import returns kind; the wrapper checks the variant
ImportReturn(kind) ==
    IF Top(cop_stack).strict /\ kind.import # Top(cop_stack).a.import
    THEN CopAbort("err")
    ELSE CopReturn(kind)

CopInit ==
    /\ cop_orig \in CopierModules
    /\ cop_dest = cop_orig
    /\ cop_src = Module_empty
    /\ cop_cache = EmptyMap
    /\ cop_fun_cache = EmptyMap
    /\ cop_sig_cache = EmptyMap
    /\ cop_stack = <<>>
    /\ cop_ret = RNone
    /\ cop_done = 0
    /\ cop_phase = "idle"
    /\ cop_steps = 0
    /\ KtsOff
    /\ FtsOff
    /\ PassesOff("")

\* module.rs 124-137: the module becomes the source, m an empty module
Cop_tree_shake ==
    /\ cop_phase = "idle"
    /\ cop_src' = cop_dest
    /\ cop_dest' = Module_empty
    /\ cop_phase' = IF cop_dest.exports = <<>> THEN "ok" ELSE "running"
    /\ UNCHANGED <<cop_orig, cop_cache, cop_fun_cache, cop_sig_cache, cop_stack,
                   cop_ret, cop_done, notCop>>
    /\ cop_steps' = cop_steps + 1

\* module.rs 138-140
Cop_export_call ==
    /\ cop_phase = "running"
    /\ cop_stack = <<>>
    /\ cop_ret.tag = "None"
    /\ cop_stack' = <<CopFrame("translate_import",
                               x2i(cop_src.exports[cop_done + 1].kind), FALSE)>>
    /\ UNCHANGED <<cop_orig, cop_src, cop_dest, cop_cache, cop_fun_cache,
                   cop_sig_cache, cop_ret, cop_done, cop_phase, notCop>>
    /\ cop_steps' = cop_steps + 1

\* module.rs 141-145
Cop_export_push ==
    /\ cop_phase = "running"
    /\ cop_stack = <<>>
    /\ cop_ret.tag = "Ok"
    /\ cop_dest' = [cop_dest EXCEPT !.exports =
            Append(@, Export(cop_src.exports[cop_done + 1].name, i2x(cop_ret.val)))]
    /\ cop_done' = cop_done + 1
    /\ cop_ret' = RNone
    /\ cop_phase' = IF cop_done + 1 = Len(cop_src.exports) THEN "ok" ELSE "running"
    /\ UNCHANGED <<cop_orig, cop_src, cop_cache, cop_fun_cache, cop_sig_cache,
                   cop_stack, notCop>>
    /\ cop_steps' = cop_steps + 1

\* module.rs 250-264: bound, imported under these names, or cached
Cop_translate_import_found ==
    /\ CopTop("translate_import", "call")
    /\ LET l == import_lookup(cop_src, cop_dest, cop_cache, Top(cop_stack).a)
       IN  /\ l.tag = "found"
           /\ ImportReturn(l.kind)
    /\ UNCHANGED <<cop_orig, cop_src, cop_dest, cop_cache, cop_fun_cache,
                   cop_sig_cache, cop_done, notCop>>
    /\ cop_steps' = cop_steps + 1

\* module.rs 268-269 with 229-237, then 283-291: a memory or a global
Cop_translate_import_leaf ==
    /\ CopTop("translate_import", "call")
    /\ LET a == Top(cop_stack).a
           d == IF a.import = "Memory"
                THEN [cop_dest EXCEPT !.memories = Append(@, cop_src.memories[a.id])]
                ELSE [cop_dest EXCEPT !.globals = Append(@, cop_src.globals[a.id])]
           c == ImportKind(a.import,
                    IF a.import = "Memory" THEN Len(d.memories) ELSE Len(d.globals))
       IN  /\ import_lookup(cop_src, cop_dest, cop_cache, a).tag = "missing"
           /\ a.import \in {"Memory", "Global"}
           /\ cop_cache' = (a :> c) @@ cop_cache
           /\ cop_dest' = import_record(cop_src, d, a, c)
           /\ ImportReturn(c)
    /\ UNCHANGED <<cop_orig, cop_src, cop_fun_cache, cop_sig_cache, cop_done, notCop>>
    /\ cop_steps' = cop_steps + 1

\* module.rs 266-267: a table or a function
Cop_translate_import_dispatch ==
    /\ CopTop("translate_import", "call")
    /\ LET fr == Top(cop_stack)
       IN  /\ import_lookup(cop_src, cop_dest, cop_cache, fr.a).tag = "missing"
           /\ fr.a.import \in {"Func", "Table"}
           /\ cop_stack' = Append(Append(Pop(cop_stack), [fr EXCEPT !.pc = "ret"]),
                  CopFrame(IF fr.a.import = "Func" THEN "internal_translate_func"
                           ELSE "internal_translate_table", fr.a.id, FALSE))
    /\ UNCHANGED <<cop_orig, cop_src, cop_dest, cop_cache, cop_fun_cache,
                   cop_sig_cache, cop_ret, cop_done, cop_phase, notCop>>
    /\ cop_steps' = cop_steps + 1

\* module.rs 283-291
Cop_translate_import_ret ==
    /\ CopTop("translate_import", "ret")
    /\ cop_ret.tag = "Ok"
    /\ LET a == Top(cop_stack).a
           c == ImportKind(a.import, cop_ret.val)
       IN  /\ cop_cache' = (a :> c) @@ cop_cache
           /\ cop_dest' = import_record(cop_src, cop_dest, a, c)
           /\ ImportReturn(c)
    /\ UNCHANGED <<cop_orig, cop_src, cop_fun_cache, cop_sig_cache, cop_done, notCop>>
    /\ cop_steps' = cop_steps + 1

\* the frame on top of the stack, changed
CopStep(fr) ==
    /\ cop_stack' = Append(Pop(cop_stack), fr)
    /\ cop_phase' = cop_phase

\* a call of translate_Func, translate_Table, ... (module.rs 112-123)
CopCall(fr, variant, id) ==
    /\ cop_stack' = Append(Append(Pop(cop_stack), fr),
                           CopFrame("translate_import", ImportKind(variant, id), TRUE))
    /\ cop_phase' = cop_phase

\* module.rs 354-359: Func::invalid() or a function translated before
Cop_internal_translate_func_cached ==
    /\ CopTop("internal_translate_func", "call")
    /\ LET f == Top(cop_stack).a
       IN  /\ f = 0 \/ f \in DOMAIN cop_fun_cache
           /\ CopReturn(IF f = 0 THEN 0 ELSE cop_fun_cache[f])
    /\ UNCHANGED <<cop_orig, cop_src, cop_dest, cop_cache, cop_fun_cache,
                   cop_sig_cache, cop_done, notCop>>
    /\ cop_steps' = cop_steps + 1

\* module.rs 360-375: the placeholder, the start shim, the declaration taken
\* out of src.  Copier::state.tables is empty in tree_shake_via (136), so
\* the loop of 362-367 has nothing to do.
Cop_internal_translate_func_reserve ==
    /\ CopTop("internal_translate_func", "call")
    /\ LET fr == Top(cop_stack)
           f  == fr.a
           a  == Len(cop_dest.funcs) + 1
           d1 == [cop_dest EXCEPT !.funcs = Append(@, FuncDecl_None)]
           st == IF f = cop_src.start_func THEN add_start(d1, a)
                 ELSE [status |-> "ok", module |-> d1]
       IN  /\ f # 0
           /\ f \notin DOMAIN cop_fun_cache
           /\ cop_fun_cache' = (f :> a) @@ cop_fun_cache
           /\ cop_dest' = st.module
           /\ IF st.status = "panic"
              THEN /\ CopAbort("panic")
                   /\ cop_src' = cop_src
              ELSE /\ cop_src' = [cop_src EXCEPT !.funcs[f] = FuncDecl_None]
                   /\ CopStep([fr EXCEPT !.pc = "walk", !.dst = a,
                                         !.decl = cop_src.funcs[f],
                                         !.items = func_items(cop_src.funcs[f]),
                                         !.pos = 1])
                   /\ cop_ret' = cop_ret
    /\ UNCHANGED <<cop_orig, cop_cache, cop_sig_cache, cop_done, notCop>>
    /\ cop_steps' = cop_steps + 1

\* module.rs 414-422, 454-459: a signature index of the body
Cop_internal_translate_func_sig ==
    /\ CopTop("internal_translate_func", "walk")
    /\ LET fr == Top(cop_stack) IN
       /\ fr.pos <= Len(fr.items)
       /\ fr.items[fr.pos].variant = "Sig"
       /\ LET ts == translate_sig(cop_src, cop_dest, cop_sig_cache,
                                  get_ref(fr.decl.body, fr.items[fr.pos]))
          IN  /\ cop_dest' = ts.dest
              /\ cop_sig_cache' = ts.sig_cache
              /\ CopStep([fr EXCEPT
                     !.decl.body = set_ref(@, fr.items[fr.pos], ts.sig),
                     !.pos = @ + 1])
    /\ UNCHANGED <<cop_orig, cop_src, cop_cache, cop_fun_cache, cop_ret,
                   cop_done, notCop>>
    /\ cop_steps' = cop_steps + 1

\* module.rs 394-397, 402-406, 422-440, 452, 456: an entity of the body
Cop_internal_translate_func_ref ==
    /\ CopTop("internal_translate_func", "walk")
    /\ LET fr == Top(cop_stack) IN
       /\ fr.pos <= Len(fr.items)
       /\ fr.items[fr.pos].variant # "Sig"
       /\ CopCall([fr EXCEPT !.pc = "resume"], fr.items[fr.pos].variant,
                  get_ref(fr.decl.body, fr.items[fr.pos]))
    /\ UNCHANGED <<cop_orig, cop_src, cop_dest, cop_cache, cop_fun_cache,
                   cop_sig_cache, cop_ret, cop_done, notCop>>
    /\ cop_steps' = cop_steps + 1

Cop_internal_translate_func_resume ==
    /\ CopTop("internal_translate_func", "resume")
    /\ cop_ret.tag = "Ok"
    /\ LET fr == Top(cop_stack)
       IN  CopStep([fr EXCEPT
               !.decl.body = set_ref(@, fr.items[fr.pos], cop_ret.val.id),
               !.pos = @ + 1, !.pc = "walk"])
    /\ cop_ret' = RNone
    /\ UNCHANGED <<cop_orig, cop_src, cop_dest, cop_cache, cop_fun_cache,
                   cop_sig_cache, cop_done, notCop>>
    /\ cop_steps' = cop_steps + 1

\* module.rs 472-484: the signature of the declaration, and the slot filled
Cop_internal_translate_func_install ==
    /\ CopTop("internal_translate_func", "walk")
    /\ LET fr == Top(cop_stack) IN
       /\ fr.pos > Len(fr.items)
       /\ IF fr.decl.kind = "None"
          THEN /\ cop_dest' = [cop_dest EXCEPT !.funcs[fr.dst] = fr.decl]
               /\ cop_sig_cache' = cop_sig_cache
          ELSE LET ts == translate_sig(cop_src, cop_dest, cop_sig_cache, fr.decl.sig)
               IN  /\ cop_dest' = [ts.dest EXCEPT
                                      !.funcs[fr.dst] = [fr.decl EXCEPT !.sig = ts.sig]]
                   /\ cop_sig_cache' = ts.sig_cache
       /\ CopReturn(fr.dst)
    /\ UNCHANGED <<cop_orig, cop_src, cop_cache, cop_fun_cache, cop_done, notCop>>
    /\ cop_steps' = cop_steps + 1

\* module.rs 297-298
Cop_internal_translate_table_clone ==
    /\ CopTop("internal_translate_table", "call")
    /\ LET fr == Top(cop_stack)
       IN  CopStep([fr EXCEPT !.pc = "walk", !.decl = cop_src.tables[fr.a],
                              !.pos = 1])
    /\ UNCHANGED <<cop_orig, cop_src, cop_dest, cop_cache, cop_fun_cache,
                   cop_sig_cache, cop_ret, cop_done, notCop>>
    /\ cop_steps' = cop_steps + 1

\* module.rs 301-305
Cop_internal_translate_table_elem ==
    /\ CopTop("internal_translate_table", "walk")
    /\ LET fr == Top(cop_stack) IN
       /\ fr.decl.has_func_elements
       /\ fr.pos <= Len(fr.decl.func_elements)
       /\ CopCall([fr EXCEPT !.pc = "resume"], "Func", fr.decl.func_elements[fr.pos])
    /\ UNCHANGED <<cop_orig, cop_src, cop_dest, cop_cache, cop_fun_cache,
                   cop_sig_cache, cop_ret, cop_done, notCop>>
    /\ cop_steps' = cop_steps + 1

Cop_internal_translate_table_resume ==
    /\ CopTop("internal_translate_table", "resume")
    /\ cop_ret.tag = "Ok"
    /\ LET fr == Top(cop_stack)
       IN  CopStep([fr EXCEPT !.decl.func_elements[fr.pos] = cop_ret.val.id,
                              !.pos = @ + 1, !.pc = "walk"])
    /\ cop_ret' = RNone
    /\ UNCHANGED <<cop_orig, cop_src, cop_dest, cop_cache, cop_fun_cache,
                   cop_sig_cache, cop_done, notCop>>
    /\ cop_steps' = cop_steps + 1

\* module.rs 307
Cop_internal_translate_table_push ==
    /\ CopTop("internal_translate_table", "walk")
    /\ LET fr == Top(cop_stack) IN
       /\ ~fr.decl.has_func_elements \/ fr.pos > Len(fr.decl.func_elements)
       /\ cop_dest' = [cop_dest EXCEPT !.tables = Append(@, fr.decl)]
       /\ CopReturn(Len(cop_dest.tables) + 1)
    /\ UNCHANGED <<cop_orig, cop_src, cop_cache, cop_fun_cache, cop_sig_cache,
                   cop_done, notCop>>
    /\ cop_steps' = cop_steps + 1

NextCop ==
    \/ Cop_tree_shake
    \/ Cop_export_call
    \/ Cop_export_push
    \/ Cop_translate_import_found
    \/ Cop_translate_import_leaf
    \/ Cop_translate_import_dispatch
    \/ Cop_translate_import_ret
    \/ Cop_internal_translate_func_cached
    \/ Cop_internal_translate_func_reserve
    \/ Cop_internal_translate_func_sig
    \/ Cop_internal_translate_func_ref
    \/ Cop_internal_translate_func_resume
    \/ Cop_internal_translate_func_install
    \/ Cop_internal_translate_table_clone
    \/ Cop_internal_translate_table_elem
    \/ Cop_internal_translate_table_resume
    \/ Cop_internal_translate_table_push

SpecCop == CopInit /\ [][NextCop]_vars

(***************************************************************************)
(* Properties of tree_shake and of the copier.                             *)
(***************************************************************************)
\* the functions and tables an entity of module m refers to
EntityRefs(m, e) ==
    IF e.import = "Func"
    THEN IF e.id \in DOMAIN m.funcs /\ m.funcs[e.id].kind = "Body"
         THEN LET items == func_items(m.funcs[e.id])
              IN  {ImportKind(items[i].variant, get_ref(m.funcs[e.id].body, items[i])) :
                     i \in {j \in DOMAIN items : items[j].variant \in {"Func", "Table"}}}
         ELSE {}
    ELSE IF e.import = "Table" /\ m.tables[e.id].has_func_elements
    THEN {ImportKind("Func", m.tables[e.id].func_elements[i]) :
             i \in DOMAIN m.tables[e.id].func_elements}
    ELSE {}

RECURSIVE EntityClosure(_, _)
EntityClosure(m, seen) ==
    LET more == seen \cup UNION {EntityRefs(m, e) : e \in seen}
    IN  IF more = seen THEN seen ELSE EntityClosure(m, more)

\* the functions of m its exports reach
ReachableFuncs(m) ==
    {e.id : e \in {x \in EntityClosure(m, {x2i(m.exports[i].kind) : i \in DOMAIN m.exports}) :
                      x.import = "Func" /\ x.id # 0}}

\* c is an image in dst of entity a of the source module
IsImage(a, c) ==
    /\ c.import = a.import
    /\ CASE a.import = "Func" ->
                a.id \in DOMAIN cop_fun_cache /\ c.id = cop_fun_cache[a.id]
         [] a.import = "Table" ->
                /\ c.id \in DOMAIN cop_dest.tables
                /\ cop_dest.tables[c.id] =
                      [cop_orig.tables[a.id] EXCEPT !.func_elements =
                          [i \in DOMAIN @ |->
                              IF @[i] \in DOMAIN cop_fun_cache
                              THEN cop_fun_cache[@[i]] ELSE 0]]
         [] a.import = "Memory" ->
                /\ c.id \in DOMAIN cop_dest.memories
                /\ cop_dest.memories[c.id] = cop_orig.memories[a.id]
         [] a.import = "Global" ->
                /\ c.id \in DOMAIN cop_dest.globals
                /\ cop_dest.globals[c.id] = cop_orig.globals[a.id]

\* C1: after tree_shake succeeded, the functions of m are exactly the images
\* of the functions reachable from the exports, the exports have the length,
\* names and order they had and point at the images of what they named, and
\* the module of scenario S1 (f0 exported and calling f3) has two functions
C1_TreeShakeKeepsReachable ==
    cop_phase = "ok" =>
        /\ DOMAIN cop_fun_cache = ReachableFuncs(cop_orig)
        /\ {cop_fun_cache[f] : f \in DOMAIN cop_fun_cache} = 1..Len(cop_dest.funcs)
        /\ Cardinality(DOMAIN cop_fun_cache) = Len(cop_dest.funcs)
        /\ \A f \in DOMAIN cop_fun_cache :
              /\ cop_dest.funcs[cop_fun_cache[f]].kind = cop_orig.funcs[f].kind
              /\ cop_dest.funcs[cop_fun_cache[f]].name = cop_orig.funcs[f].name
        /\ Len(cop_dest.exports) = Len(cop_orig.exports)
        /\ \A i \in DOMAIN cop_orig.exports :
              /\ cop_dest.exports[i].name = cop_orig.exports[i].name
              /\ IsImage(x2i(cop_orig.exports[i].kind), x2i(cop_dest.exports[i].kind))
        /\ cop_orig = ModuleS1 => Len(cop_dest.funcs) = 2

\* the outermost translate_import call returned a result
OutermostReturned == cop_stack = <<>> /\ cop_phase \in {"running", "ok"}

\* C2: once the outermost translate call has returned, every Call, RefFunc
\* and ReturnCall index of a translated body is the fun_cache image of the
\* index at that place of the source body, and the slot of that image in
\* dst.funcs holds a declaration
C2_FuncIndicesAreImages ==
    OutermostReturned =>
        \A f \in DOMAIN cop_fun_cache :
            cop_dest.funcs[cop_fun_cache[f]].kind = "Body" =>
                LET items == func_items(cop_orig.funcs[f]) IN
                \A i \in DOMAIN items :
                    (items[i].variant = "Func"
                        /\ get_ref(cop_orig.funcs[f].body, items[i]) # 0) =>
                    LET g == get_ref(cop_orig.funcs[f].body, items[i])
                        h == get_ref(cop_dest.funcs[cop_fun_cache[f]].body, items[i])
                    IN  /\ g \in DOMAIN cop_fun_cache
                        /\ h = cop_fun_cache[g]
                        /\ h \in 1..Len(cop_dest.funcs)
                        /\ cop_dest.funcs[h].kind # "None"

\* C3: translating the start function of the source does not panic, and
\* leaves as start function of dst a function that calls the image and then
\* returns (dst had no start function before)
C3_StartShimAdded ==
    \A f \in DOMAIN cop_fun_cache :
        f = cop_orig.start_func =>
            /\ cop_phase # "panic"
            /\ cop_dest.start_func \in 1..Len(cop_dest.funcs)
            /\ LET d == cop_dest.funcs[cop_dest.start_func] IN
               /\ d.kind = "Body"
               /\ Len(d.body.blocks[d.body.entry].insts) = 1
               /\ d.body.values[d.body.blocks[d.body.entry].insts[1]].op
                     = Op("Call", cop_fun_cache[f])
               /\ d.body.blocks[d.body.entry].terminator = TReturn(<<>>)

\* a call of translate_import for an entity the resolver passes through
\* returns with this step
PassthroughReturns ==
    /\ cop_stack # <<>>
    /\ Top(cop_stack).fn = "translate_import"
    /\ Len(cop_stack') < Len(cop_stack)
    /\ resolve_import(cop_src, Top(cop_stack).a).tag = "Passthrough"

\* C4: translate_import of a passed-through entity returns the image of that
\* entity, of the variant asked for and of no other source entity, and
\* dst.imports has an entry with the resolver's names for it; asked again it
\* returns the same image and adds nothing to dst
C4_PassthroughImage ==
    [][PassthroughReturns =>
        LET a == Top(cop_stack).a
            r == resolve_import(cop_src, a)
        IN  /\ cop_ret'.tag = "Ok"
            /\ cop_ret'.val.import = a.import
            /\ a \in DOMAIN cop_cache'
            /\ cop_cache'[a] = cop_ret'.val
            /\ \A b \in DOMAIN cop_cache' : b # a => cop_cache'[b] # cop_ret'.val
            /\ \E n \in DOMAIN cop_dest'.imports :
                  cop_dest'.imports[n] = Import(r.module, r.name, cop_ret'.val)
            /\ (Top(cop_stack).pc = "call" /\ a \in DOMAIN cop_cache) =>
                  /\ cop_ret'.val = cop_cache[a]
                  /\ cop_dest' = cop_dest]_vars

(***************************************************************************)
(* Frint (passes/frint.rs).  A key of Frint.blocks is a source block and   *)
(* one slot per function-reference parameter of that block: a function, or *)
(* 0 for None.                                                             *)
(***************************************************************************)
MaxRefFuncs == 2

\* Type::Heap(.. HeapType::FuncRef | HeapType::Sig ..) (frint.rs 25, 48, 119)
is_func_ref(ty) == ty = "FuncRef"

\* ValueDef::ty: the type of a value that has exactly one
ValueDef_ty(def) ==
    CASE def.kind \in {"BlockParam", "PickOutput"} -> def.ty
      [] def.kind = "Operator" /\ Len(def.tys) = 1 -> def.tys[1]
      [] OTHER -> "none"

\* frint.rs 21-28: every function-reference parameter is unknown
base_params(blockdef) ==
    [i \in DOMAIN SelectSeq(ParamTypes(blockdef), is_func_ref) |-> 0]

\* frint.rs 43-62: a RefFunc in place of a parameter whose slot names a
\* function, a blockparam for the others; p is the iterator over the slots
RECURSIVE frint_params(_, _, _, _, _)
frint_params(dst, state, new, params, p) ==
    IF params = <<>> THEN [dst |-> dst, state |-> state]
    ELSE LET ty == Head(params)[1]
             v  == Head(params)[2]
         IN  IF is_func_ref(ty) /\ p = <<>>
             THEN frint_params(dst, state, new, Tail(params), p)
             ELSE IF is_func_ref(ty) /\ Head(p) # 0
             THEN LET d1 == add_op(dst, new, Op("RefFunc", Head(p)), <<>>, <<ty>>)
                  IN  frint_params(d1, (v :> Len(d1.values)) @@ state, new,
                                   Tail(params), Tail(p))
             ELSE LET d1 == add_blockparam(dst, new, ty)
                  IN  frint_params(d1, (v :> Len(d1.values)) @@ state, new,
                                   Tail(params),
                                   IF is_func_ref(ty) THEN Tail(p) ELSE p)

\* frint.rs 118-136 for one argument b of dst: the slot it contributes to
\* the key (a sequence of at most one slot)
target_slot_by_value(dst, b) ==
    IF ~is_func_ref(ValueDef_ty(dst.values[b])) THEN <<>>
    ELSE IF dst.values[b].kind = "Operator" /\ dst.values[b].op.name = "RefFunc"
    THEN <<b>>
    ELSE <<0>>

target_slot(dst, b) ==
    IF ~is_func_ref(ValueDef_ty(dst.values[b])) THEN <<>>
    ELSE IF dst.values[b].kind = "Operator" /\ dst.values[b].op.name = "RefFunc"
    THEN <<dst.values[b].op.index>>
    ELSE <<0>>

\* frint.rs 113-138: the key (funcs) and the arguments left of a target
RECURSIVE target_funcs(_, _)
target_funcs(dst, args) ==
    IF args = <<>> THEN <<>>
    ELSE target_slot(dst, Head(args)) \o target_funcs(dst, Tail(args))

\* the arguments of a target with the RefFunc values left in
target_args_keeping_RefFunc(dst, args) == args

target_args(dst, args) ==
    SelectSeq(args, LAMBDA b : target_slot(dst, b) \in {<<>>, <<0>>})

FrintFrame(k, params) ==
    [pc |-> "call", k |-> k, params |-> params, new |-> 0, state |-> EmptyMap,
     done |-> <<>>]

FrintTop(pc) == frint_stack # <<>> /\ Top(frint_stack).pc = pc

\* Source bodies for Frint: the entry block has a function-reference
\* parameter p, makes two RefFunc values of functions fa and fb and branches
\* twice to block 2, passing an i32 and two of p, the RefFuncs; block 2 takes
\* (i32, funcref, funcref) and returns or branches to itself
FrintBody(fa, fb, xs, ys, t2) ==
    LET b0 == FunctionBody_new([signatures |-> <<SigFunc(<<"FuncRef">>, <<>>)>>], 1)
        b1 == add_ops(b0, 1, <<<<Op("I32Const", 0), <<>>, <<"I32">>>>,
                               <<Op("RefFunc", fa), <<>>, <<"FuncRef">>>>,
                               <<Op("RefFunc", fb), <<>>, <<"FuncRef">>>>>>)
        b2 == add_blockparams(add_block(b1), 2, <<"I32", "FuncRef", "FuncRef">>)
        b3 == set_terminator(b2, 1, TCondBr(2, BlockTarget(2, <<2>> \o xs),
                                               BlockTarget(2, <<2>> \o ys)))
    IN  set_terminator(b3, 2, t2)

FrintBodies ==
    {FrintBody(fa, fb, xs, ys, t2) :
        fa \in 1..MaxRefFuncs, fb \in 1..MaxRefFuncs,
        xs \in {1, 3, 4} \X {1, 3, 4}, ys \in {1, 3, 4} \X {1, 3, 4},
        t2 \in {TReturn(<<6>>), TBr(BlockTarget(2, <<5, 6, 7>>)),
                TBr(BlockTarget(2, <<5, 7, 6>>)), TBr(BlockTarget(2, <<5, 6, 6>>))}}

FrintInit ==
    /\ frint_src \in FrintBodies
    /\ frint_dst = FunctionBody_new(KtsModule(frint_src), 1)
    /\ frint_blocks = EmptyMap
    /\ frint_stack = <<>>
    /\ frint_ret = RNone
    /\ KtsOff /\ FtsOff /\ CopOff
    /\ PassesOff("frint")

\* frint.rs 15-30: translate_base on the entry block
Frint_translate_base ==
    /\ frint_stack = <<>>
    /\ frint_ret.tag = "None"
    /\ frint_stack' = <<FrintFrame(frint_src.entry,
                            base_params(frint_src.blocks[frint_src.entry]))>>
    /\ UNCHANGED <<frint_src, frint_dst, frint_blocks, frint_ret, notFrint>>

\* frint.rs 39-41
Frint_translate_cached ==
    /\ FrintTop("call")
    /\ LET key == <<Top(frint_stack).k, Top(frint_stack).params>>
       IN  /\ key \in DOMAIN frint_blocks
           /\ frint_ret' = ROk(frint_blocks[key])
    /\ frint_stack' = Pop(frint_stack)
    /\ UNCHANGED <<frint_src, frint_dst, frint_blocks, notFrint>>

\* frint.rs 42-111 and the operand look-up of 170-173
Frint_translate_copy ==
    /\ FrintTop("call")
    /\ LET fr    == Top(frint_stack)
           key   == <<fr.k, fr.params>>
           d1    == add_block(frint_dst)
           new   == Len(d1.blocks)
           ps    == frint_params(d1, EmptyMap, new, frint_src.blocks[fr.k].params,
                                 fr.params)
           acc   == copy_insts([dst |-> ps.dst, state |-> ps.state, status |-> "ok"],
                               new, frint_src, fr.k, frint_src.blocks[fr.k].insts)
           early == early_operand(frint_src.blocks[fr.k].terminator)
       IN  /\ key \notin DOMAIN frint_blocks
           /\ frint_dst' = acc.dst
           /\ frint_blocks' = (key :> new) @@ frint_blocks
           /\ IF acc.status = "panic"
              THEN frint_stack' = <<>> /\ frint_ret' = RPanic
              ELSE IF acc.status = "err" \/ (early # 0 /\ early \notin DOMAIN acc.state)
              THEN frint_stack' = <<>> /\ frint_ret' = RErr
              ELSE /\ frint_stack' = Append(Pop(frint_stack),
                          [fr EXCEPT !.pc = "term", !.new = new, !.state = acc.state])
                   /\ frint_ret' = RNone
    /\ UNCHANGED <<frint_src, notFrint>>

\* frint.rs 112-141: the key of the next target and the recursive call
Frint_translate_target ==
    /\ FrintTop("term")
    /\ frint_ret.tag = "None"
    /\ LET fr == Top(frint_stack)
           ts == visit_targets(frint_src.blocks[fr.k].terminator)
       IN  /\ Len(fr.done) < Len(ts)
           /\ frint_stack' = Append(frint_stack,
                  FrintFrame(ts[Len(fr.done) + 1].block,
                      target_funcs(frint_dst,
                          filter_map_get(ts[Len(fr.done) + 1].args, fr.state))))
    /\ UNCHANGED <<frint_src, frint_dst, frint_blocks, frint_ret, notFrint>>

\* frint.rs 139-142: the recursive call returned
Frint_translate_resume ==
    /\ FrintTop("term")
    /\ frint_ret.tag = "Ok"
    /\ LET fr == Top(frint_stack)
           ts == visit_targets(frint_src.blocks[fr.k].terminator)
           t  == ts[Len(fr.done) + 1]
           bt == BlockTarget(frint_ret.val,
                     target_args(frint_dst, filter_map_get(t.args, fr.state)))
       IN  frint_stack' = Append(Pop(frint_stack), [fr EXCEPT !.done = Append(@, bt)])
    /\ frint_ret' = RNone
    /\ UNCHANGED <<frint_src, frint_dst, frint_blocks, notFrint>>

\* frint.rs 144-212, then 39-41 on the next turn of the loop
Frint_translate_finish ==
    /\ FrintTop("term")
    /\ frint_ret.tag = "None"
    /\ LET fr   == Top(frint_stack)
           t    == frint_src.blocks[fr.k].terminator
           late == late_operand(t)
       IN  /\ Len(fr.done) = Len(visit_targets(t))
           /\ IF late # 0 /\ late \notin DOMAIN fr.state
              THEN /\ frint_stack' = <<>>
                   /\ frint_ret' = RErr
                   /\ frint_dst' = frint_dst
              ELSE /\ frint_dst' = set_terminator(frint_dst, fr.new,
                                       rebuild_terminator(t, fr.state, fr.done))
                   /\ frint_stack' = Pop(frint_stack)
                   /\ frint_ret' = ROk(fr.new)
    /\ UNCHANGED <<frint_src, frint_blocks, notFrint>>

NextFrint ==
    \/ Frint_translate_base
    \/ Frint_translate_cached
    \/ Frint_translate_copy
    \/ Frint_translate_target
    \/ Frint_translate_resume
    \/ Frint_translate_finish

SpecFrint == FrintInit /\ [][NextFrint]_vars

(***************************************************************************)
(* Claims about Frint.                                                     *)
(***************************************************************************)
\* the number of function-reference parameters among the first n of block k
RefSlot(k, n) ==
    Len(SelectSeq(SubSeq(ParamTypes(frint_src.blocks[k]), 1, n), is_func_ref))

\* the function source value v is statically known to be in the copy of
\* block k made for the slots params, 0 if it is not known
KnownFunc(k, params, v) ==
    LET def == frint_src.values[v] IN
    IF def.kind = "Operator" /\ def.op.name = "RefFunc" THEN def.op.index
    ELSE IF def.kind = "BlockParam" /\ def.block = k /\ is_func_ref(def.ty)
            /\ RefSlot(k, def.index + 1) <= Len(params)
    THEN params[RefSlot(k, def.index + 1)]
    ELSE 0

\* what a branch site of that copy passes in the function-reference
\* positions of its target
SiteKey(k, params, t) ==
    LET refs == SelectSeq(t.args,
                    LAMBDA v : is_func_ref(ValueDef_ty(frint_src.values[v])))
    IN  [i \in DOMAIN refs |-> KnownFunc(k, params, refs[i])]

\* the copies of source blocks whose terminator has been written
FrintDone ==
    {key \in DOMAIN frint_blocks :
        frint_dst.blocks[frint_blocks[key]].terminator.kind # "None"}

FrintSites(key) == DOMAIN visit_targets(frint_src.blocks[key[1]].terminator)

FrintSrcSite(key, i) == visit_targets(frint_src.blocks[key[1]].terminator)[i]

FrintDstSite(key, i) ==
    visit_targets(frint_dst.blocks[frint_blocks[key]].terminator)[i]

\* C11: two branch sites that target the same source block and pass the same
\* known functions in the same function-reference positions, and unknown
\* values in the others, branch to the same destination block
C11_FrintDedup ==
    \A k1 \in FrintDone, k2 \in FrintDone :
        \A i1 \in FrintSites(k1), i2 \in FrintSites(k2) :
            (/\ FrintSrcSite(k1, i1).block = FrintSrcSite(k2, i2).block
             /\ SiteKey(k1[1], k1[2], FrintSrcSite(k1, i1))
                    = SiteKey(k2[1], k2[2], FrintSrcSite(k2, i2)))
                => FrintDstSite(k1, i1).block = FrintDstSite(k2, i2).block

\* Frint returned on a body whose entry passes, at its two branch sites, two
\* RefFunc instructions of one function in the same position
C11_Witness ==
    /\ frint_stack = <<>>
    /\ frint_ret.tag = "Ok"
    /\ LET t == frint_src.blocks[1].terminator IN
       /\ t.if_true.args = <<2, 3, 1>>
       /\ t.if_false.args = <<2, 4, 1>>
       /\ frint_src.values[3].op = frint_src.values[4].op
    /\ LET d == frint_dst.blocks[frint_ret.val].terminator IN
       /\ d.if_true.block = d.if_false.block
       /\ Len(d.if_true.args) = 2

(***************************************************************************)
(* Unmem (passes/unmem.rs): the data segments and the initial size of a    *)
(* memory become functions chained before the start function.              *)
(***************************************************************************)
\* the pairs of one chunk of metafuse_iter; the source's chunks hold 4096
ChunkSize == 2

\* MemoryData and MemorySegment (ir/module.rs 86-96)
MemorySegment(offset, data) == [offset |-> offset, data |-> data]
MemoryData_of(initial_pages, segments, memory64) ==
    [initial_pages |-> initial_pages, maximum_pages |-> 0,
     segments |-> segments, memory64 |-> memory64, shared |-> FALSE]

\* the loop of fuse_iter: per pair the byte, the address and the store
RECURSIVE fuse_iter_stores(_, _, _)
fuse_iter_stores(b, x, mem) ==
    IF x = <<>> THEN b
    ELSE LET b1 == add_op(b, b.entry, Op("I32Const", Head(x)[2]), <<>>, <<"I32">>)
             ic == Len(b1.values)
             b2 == add_op(b1, b1.entry, Op("I32Const", Head(x)[1]), <<>>, <<"I32">>)
             ia == Len(b2.values)
             b3 == add_op(b2, b2.entry, Op("I32Store8", mem), <<ia, ic>>, <<>>)
         IN  fuse_iter_stores(b3, Tail(x), mem)

\* fuse_iter: a function "z" storing the pairs in order, put before the
\* start function
fuse_iter(m, x, mem) ==
    LET ns == new_sig(m, SigFunc(<<>>, <<>>))
        b0 == FunctionBody_new(ns.module, ns.sig)
        b1 == add_op(b0, b0.entry, Op("I32Const", 0), <<>>, <<"I32">>)
        b2 == fuse_iter_stores(b1, x, mem)
        b3 == set_terminator(b2, b2.entry, TReturn(<<>>))
        m1 == [ns.module EXCEPT !.funcs = Append(@, FuncDecl_Body(ns.sig, "z", b3))]
    IN  add_start(m1, Len(m1.funcs)).module

\* metafuse_iter: fuse_iter on every chunk, first chunk first
RECURSIVE metafuse_iter(_, _, _)
metafuse_iter(m, x, mem) ==
    IF x = <<>> THEN m
    ELSE LET n == IF Len(x) < ChunkSize THEN Len(x) ELSE ChunkSize
         IN  metafuse_iter(fuse_iter(m, SubSeq(x, 1, n), mem),
                           SubSeq(x, n + 1, Len(x)), mem)

\* the (address, byte) pairs of the segments, in list order
RECURSIVE segment_pairs(_)
segment_pairs(segments) ==
    IF segments = <<>> THEN <<>>
    ELSE LET s == Head(segments)
         IN  [a \in DOMAIN s.data |-> <<(a - 1) + s.offset, s.data[a]>>]
                 \o segment_pairs(Tail(segments))

\* metafuse: the byte stores of the memory, then a function "z" that grows
\* the memory by its initial pages, put before the start function
metafuse(m, mem, dat) ==
    LET ns == new_sig(m, SigFunc(<<>>, <<>>))
        m1 == metafuse_iter(ns.module, segment_pairs(dat.segments), mem)
        b0 == FunctionBody_new(m1, ns.sig)
        b1 == add_op(b0, b0.entry, Op("I32Const", dat.initial_pages), <<>>, <<"I32">>)
        ia == Len(b1.values)
        b2 == add_op(b1, b1.entry, Op("MemoryGrow", mem), <<ia>>, <<>>)
        b3 == set_terminator(b2, b2.entry, TReturn(<<>>))
        m2 == [m1 EXCEPT !.funcs = Append(@, FuncDecl_Body(ns.sig, "z", b3))]
    IN  add_start(m2, Len(m2.funcs)).module

\* Cfg::unmemmable of All and of ImportsOnly
unmemmable(cfg, m, mem) ==
    \/ cfg = "All"
    \/ \E i \in DOMAIN m.imports : m.imports[i].kind = ImportKind("Memory", mem)

\* the last loop of metafuse_all: metafuse on the taken memories, by index
RECURSIVE metafuse_each(_, _, _, _)
metafuse_each(m, b, taken, mem) ==
    IF mem > Len(b) THEN m
    ELSE metafuse_each(IF mem \in taken THEN metafuse(m, mem, b[mem]) ELSE m,
                       b, taken, mem + 1)

\* metafuse_all without the replacement of the memories
metafuse_all_keeping_memories(m, cfg) ==
    metafuse_each(m, m.memories,
                  {mem \in DOMAIN m.memories : unmemmable(cfg, m, mem)}, 1)

\* metafuse_all: every unmemmable memory is emptied and rebuilt at start
metafuse_all(m, cfg) ==
    LET b     == m.memories
        empty == [mem \in DOMAIN b |->
                     [b[mem] EXCEPT !.initial_pages = 0, !.maximum_pages = 0,
                                    !.segments = <<>>]]
        m1    == [m EXCEPT !.memories = empty]
        taken == {mem \in DOMAIN b : unmemmable(cfg, m1, mem)}
        m2    == [m1 EXCEPT !.memories =
                     [mem \in DOMAIN b |->
                         IF mem \in taken THEN empty[mem] ELSE b[mem]]]
    IN  metafuse_each(m2, b, taken, 1)

(***************************************************************************)
(* Memory fusion (passes/mem_fusing.rs) and reorder_mems                   *)
(* (passes/reorder_funs.rs).  Memories are numbered from 1; the index a    *)
(* memory has in the source, Memory::index(), is one less.                 *)
(***************************************************************************)
MaxMemOps == 2

\* the operators rewrite_mem hands to its callback with an address operand
\* (op_traits.rs 3204-3241), and those it hands over without one
AddressedOps == {"I32Load", "I32Store", "I32Store8"}
SizeOps == {"MemorySize", "MemoryGrow"}

\* get_exports: the last export of a name wins; 0 when there is none
get_exports(m, name, variant) ==
    LET hits == {i \in DOMAIN m.exports : m.exports[i].name = name}
        last == CHOOSE i \in hits : \A j \in hits : j <= i
    IN  IF hits # {} /\ m.exports[last].kind.export = variant
        THEN m.exports[last].kind.id ELSE 0

\* Fuse::new: the Fuse record, or RNone when an export is missing
Fuse_new(m) ==
    LET a == get_exports(m, "sk%resolve", "Func")
        b == get_exports(m, "sk%grow", "Func")
        c == get_exports(m, "sk%size", "Func")
        d == get_exports(m, "memory", "Memory")
    IN  IF a = 0 \/ b = 0 \/ c = 0 \/ d = 0 THEN RNone
        ELSE ROk([resolve |-> a, grow |-> b, size |-> c, target |-> d])

\* the closure p of process: an address of memory mem is wrapped or
\* extended to the width of the target memory
Fuse_p(self, m, f, k, mem, v) ==
    LET a == m.memories[mem].memory64
        t == m.memories[self.target].memory64
        f1 == add_op(f, k, Op(IF a THEN "I32WrapI64" ELSE "I64ExtendI32U", 0),
                     <<v>>, <<IF a THEN "I32" ELSE "I64">>)
    IN  IF a = t THEN [body |-> f, v |-> v]
        ELSE [body |-> f1, v |-> Len(f1.values)]

\* one value of the loop of process (mem_fusing.rs 121-234)
process_value_in_place(self, m, f, k, v) ==
    LET w == f.values[v]
    IN  IF w.kind = "Operator" /\ w.op.name \in AddressedOps
           /\ w.op.index # self.target
        THEN append_to_block(
                 [f EXCEPT !.values[v].op.index = self.target], k, v)
        ELSE append_to_block(f, k, v)

process_value(self, m, f, k, v) ==
    LET w   == f.values[v]
        mem == w.op.index
        f1  == add_op(f, k, Op("I32Const", mem - 1), <<>>, <<"I32">>)
        ia  == Len(f1.values)
    IN  IF w.kind = "Operator" /\ w.op.name \in SizeOps /\ mem # self.target
        THEN LET bp == Append(w.args, ia)
                 r  == Fuse_p(self, m, f1, k, mem, bp[1])
                 w2 == [w EXCEPT
                           !.op = Op("Call", IF w.op.name = "MemorySize"
                                             THEN self.size ELSE self.grow),
                           !.args = [bp EXCEPT ![1] = r.v]]
             IN  append_to_block([r.body EXCEPT !.values[v] = w2], k, v)
        ELSE IF w.kind = "Operator" /\ w.op.name \in AddressedOps
                /\ mem # self.target
        THEN LET r  == Fuse_p(self, m, f1, k, mem, w.args[1])
                 f2 == add_op(r.body, k, Op("Call", self.resolve),
                              <<r.v, ia>>, <<"I32">>)
                 x  == Len(f2.values)
                 w2 == [w EXCEPT !.op.index = self.target, !.args[1] = x]
             IN  append_to_block([f2 EXCEPT !.values[v] = w2], k, v)
        ELSE append_to_block(f, k, v)

RECURSIVE process_insts(_, _, _, _, _)
process_insts(self, m, f, k, insts) ==
    IF insts = <<>> THEN f
    ELSE process_insts(self, m, process_value(self, m, f, k, Head(insts)),
                       k, Tail(insts))

\* Fuse::process: block by block, the instructions are taken out and put
\* back one by one behind what their rewriting inserts
RECURSIVE Fuse_process(_, _, _, _)
Fuse_process(self, m, f, k) ==
    IF k > Len(f.blocks) THEN f
    ELSE Fuse_process(self, m,
             process_insts(self, m, [f EXCEPT !.blocks[k].insts = <<>>], k,
                           f.blocks[k].insts),
             k + 1)

\* the memory operators of a body that fs does not map (reorder_mems
\* unwraps the lookup, reorder_funs.rs 116)
Unmapped(decl, fs) ==
    /\ decl.kind = "Body"
    /\ \E v \in DOMAIN decl.body.values :
          /\ decl.body.values[v].kind = "Operator"
          /\ decl.body.values[v].op.name \in AddressedOps \cup SizeOps
          /\ decl.body.values[v].op.index \notin DOMAIN fs

reorder_mems_in_body(body, fs) ==
    [body EXCEPT !.values =
        [v \in DOMAIN body.values |->
            IF body.values[v].kind = "Operator"
               /\ body.values[v].op.name \in AddressedOps \cup SizeOps
            THEN [body.values[v] EXCEPT !.op.index = fs[@]]
            ELSE body.values[v]]]

\* the last loop of reorder_mems: m.memories[g] = mes[f], by ascending f
RECURSIVE reorder_mems_move(_, _, _, _)
reorder_mems_move(memories, mes, fs, keys) ==
    IF keys = {} THEN memories
    ELSE LET f == CHOOSE x \in keys : \A y \in keys : x <= y
         IN  reorder_mems_move([memories EXCEPT ![fs[f]] = mes[f]], mes, fs,
                               keys \ {f})

\* reorder_mems: panics on a memory fs does not map and on an index
\* outside m.memories
reorder_mems(m, fs) ==
    IF \/ \E i \in DOMAIN m.funcs : Unmapped(m.funcs[i], fs)
       \/ \E f \in DOMAIN fs : f \notin DOMAIN m.memories
                               \/ fs[f] \notin DOMAIN m.memories
    THEN [status |-> "panic", module |-> m]
    ELSE [status |-> "ok",
          module |-> [m EXCEPT
              !.funcs = [i \in DOMAIN m.funcs |->
                  IF m.funcs[i].kind = "Body"
                  THEN [m.funcs[i] EXCEPT !.body = reorder_mems_in_body(@, fs)]
                  ELSE m.funcs[i]],
              !.memories = reorder_mems_move(@, @, fs, DOMAIN fs)]]

\* Fuse::finalize: the target memory alone, then reorder_mems with the one
\* pair (target, new)
Fuse_finalize(self, m) ==
    LET mem == m.memories[self.target]
        m1  == [m EXCEPT !.memories = <<mem>>]
    IN  reorder_mems(m1, (self.target :> 1))

(***************************************************************************)
(* The modules fuse is run on: the three helpers, a function of up to      *)
(* MaxMemOps memory operators on an address constant, and two memories of  *)
(* either width, the first with a data segment; the export "memory" names  *)
(* either memory.                                                          *)
(***************************************************************************)
MemOpKinds == {"I32Load", "I32Store", "MemorySize", "MemoryGrow"}

MemOpChoices ==
    UNION {[1..n -> MemOpKinds \X (1..2)] : n \in 0..MaxMemOps}

MemOp(kind, mem) ==
    CASE kind = "I32Load"    -> <<Op(kind, mem), <<1>>, <<"I32">>>>
      [] kind = "I32Store"   -> <<Op(kind, mem), <<1, 1>>, <<>>>>
      [] kind = "MemorySize" -> <<Op(kind, mem), <<>>, <<"I32">>>>
      [] kind = "MemoryGrow" -> <<Op(kind, mem), <<1>>, <<"I32">>>>

FuseModule(ops, target, wide, helpers) ==
    MkModule(<<MkDecl("resolve", <<>>, TReturn(<<>>)),
               MkDecl("grow", <<>>, TReturn(<<>>)),
               MkDecl("size", <<>>, TReturn(<<>>)),
               MkDecl("f", <<<<Op("I32Const", 57005), <<>>, <<"I32">>>>>>
                           \o [i \in DOMAIN ops |-> MemOp(ops[i][1], ops[i][2])],
                      TReturn(<<>>))>>,
             <<>>,
             <<MemoryData_of(1, <<MemorySegment(16, <<170>>)>>, wide[1]),
               MemoryData_of(0, <<>>, wide[2])>>,
             <<>>, <<>>,
             <<Export("sk%resolve", ExportKind("Func", 1)),
               Export("sk%grow", ExportKind("Func", 2))>>
                 \o (IF helpers THEN <<Export("sk%size", ExportKind("Func", 3))>>
                     ELSE <<>>)
                 \o <<Export("memory", ExportKind("Memory", target))>>,
             0)

FuseModules ==
    {FuseModule(ops, target, wide, TRUE) :
        ops \in MemOpChoices, target \in 1..2, wide \in BOOLEAN \X BOOLEAN}
    \cup {FuseModule(<<>>, 1, <<FALSE, FALSE>>, FALSE)}

FuseInit ==
    /\ fuse_m \in FuseModules
    /\ fuse_pre = 0
    /\ fuse_self = RNone
    /\ fuse_pc = "new"
    /\ fuse_i = 0
    /\ KtsOff
    /\ FtsOff
    /\ CopOff
    /\ PassesOff("fuse")

\* fuse, first statement: Fuse::new, an error when an export is missing
Fuse_fuse_new ==
    /\ fuse_pc = "new"
    /\ fuse_self' = Fuse_new(fuse_m)
    /\ fuse_pc' = IF fuse_self'.tag = "None" THEN "err" ELSE "unmem"
    /\ UNCHANGED <<fuse_m, fuse_pre, fuse_i, notFuse>>

\* fuse, second statement: metafuse_all(m, All)
Fuse_fuse_metafuse_all ==
    /\ fuse_pc = "unmem"
    /\ fuse_m' = metafuse_all(fuse_m, "All")
    /\ fuse_pre' = fuse_m'
    /\ fuse_i' = 1
    /\ fuse_pc' = "process"
    /\ UNCHANGED <<fuse_self, notFuse>>

\* fuse, third statement: one round of take_per_func_body with process;
\* the functions are those the module had when the loop began
Fuse_fuse_process ==
    /\ fuse_pc = "process"
    /\ fuse_i <= Len(fuse_pre.funcs)
    /\ LET x    == fuse_m.funcs[fuse_i]
           hole == [fuse_m EXCEPT !.funcs[fuse_i] = FuncDecl_None]
       IN  fuse_m' = [fuse_m EXCEPT !.funcs[fuse_i] =
                         IF x.kind = "Body"
                         THEN [x EXCEPT !.body =
                                  Fuse_process(fuse_self.val, hole, @, 1)]
                         ELSE x]
    /\ fuse_i' = fuse_i + 1
    /\ UNCHANGED <<fuse_pre, fuse_self, fuse_pc, notFuse>>

\* fuse, last statement: Fuse::finalize
Fuse_fuse_finalize ==
    /\ fuse_pc = "process"
    /\ fuse_i > Len(fuse_pre.funcs)
    /\ LET r == Fuse_finalize(fuse_self.val, fuse_m)
       IN  /\ fuse_m' = r.module
           /\ fuse_pc' = IF r.status = "ok" THEN "done" ELSE "panic"
    /\ UNCHANGED <<fuse_pre, fuse_self, fuse_i, notFuse>>

NextFuse ==
    \/ Fuse_fuse_new
    \/ Fuse_fuse_metafuse_all
    \/ Fuse_fuse_process
    \/ Fuse_fuse_finalize

SpecFuse == FuseInit /\ [][NextFuse]_vars

(***************************************************************************)
(* Claims about fuse.                                                      *)
(***************************************************************************)
\* the memory indices recorded in the operators of the module's bodies
MemoryIndices(m) ==
    {m.funcs[i].body.values[v].op.index :
        <<i, v>> \in {<<i, v>> \in (DOMAIN m.funcs) \X (1..64) :
            /\ m.funcs[i].kind = "Body"
            /\ v \in DOMAIN m.funcs[i].body.values
            /\ m.funcs[i].body.values[v].kind = "Operator"
            /\ m.funcs[i].body.values[v].op.name \in AddressedOps \cup SizeOps}}

FuseLeft == fuse_self.tag = "Ok" /\ fuse_pc \in {"done", "panic"}

\* C12: on every module that exports sk%resolve, sk%grow, sk%size and a
\* memory named memory, whatever the index of that memory, fuse completes
\* and leaves exactly one memory, the emptied target memory, and every
\* memory index of every operator names that memory
C12_FuseLeavesOneMemory ==
    FuseLeft =>
        /\ fuse_pc = "done"
        /\ fuse_m.memories = <<fuse_pre.memories[fuse_self.val.target]>>
        /\ MemoryIndices(fuse_m) \subseteq {1}

\* the same when the target memory is the first memory of the module
FuseLeavesOneMemoryWhenFirst ==
    (FuseLeft /\ fuse_self.val.target = 1) =>
        /\ fuse_pc = "done"
        /\ fuse_m.memories = <<fuse_pre.memories[1]>>
        /\ MemoryIndices(fuse_m) = {1}

FuseAlwaysPanicsWhenNotFirst ==
    (FuseLeft /\ fuse_self.val.target # 1) => fuse_pc = "panic"

\* the position of a value in an instruction list, 0 when it is not there
InstPos(insts, v) ==
    IF \E i \in DOMAIN insts : insts[i] = v
    THEN CHOOSE i \in DOMAIN insts : insts[i] = v
    ELSE 0

\* x is inserted into block k of new ahead of the instruction v
InsertedBefore(pre, new, k, x, v) ==
    /\ x > Len(pre.values)
    /\ x \in DOMAIN new.values
    /\ new.values[x].kind = "Operator"
    /\ InstPos(new.blocks[k].insts, x) > 0
    /\ InstPos(new.blocks[k].insts, x) < InstPos(new.blocks[k].insts, v)

\* the functions process has been run on, and their loads and stores
Processed == {j \in 1..64 : fuse_pc = "process" /\ j < fuse_i
                               /\ fuse_pre.funcs[j].kind = "Body"}

Accesses(j) ==
    {<<k, v>> \in (DOMAIN fuse_pre.funcs[j].body.blocks)
                  \X (DOMAIN fuse_pre.funcs[j].body.values) :
        /\ InstPos(fuse_pre.funcs[j].body.blocks[k].insts, v) > 0
        /\ fuse_pre.funcs[j].body.values[v].kind = "Operator"
        /\ fuse_pre.funcs[j].body.values[v].op.name \in AddressedOps}

\* the load or store v is retargeted and addressed by sk%resolve(addr, i),
\* where addr is accepted by Address
Resolved(pre, new, k, v, Address(_, _, _, _, _)) ==
    LET o == pre.values[v]
        n == new.values[v]
        x == n.args[1]
    IN  /\ n = [o EXCEPT !.op.index = fuse_self.val.target, !.args[1] = x]
        /\ InsertedBefore(pre, new, k, x, v)
        /\ new.values[x].op = Op("Call", fuse_self.val.resolve)
        /\ Len(new.values[x].args) = 2
        /\ InsertedBefore(pre, new, k, new.values[x].args[2], v)
        /\ new.values[new.values[x].args[2]].op = Op("I32Const", o.op.index - 1)
        /\ Address(pre, new, k, v, new.values[x].args[1])

\* every block keeps its original instructions in their order
OrderKept(pre, new) ==
    \A k \in DOMAIN pre.blocks :
        SelectSeq(new.blocks[k].insts, LAMBDA v : v <= Len(pre.values))
            = pre.blocks[k].insts

ProcessRewrites(Address(_, _, _, _, _)) ==
    \A j \in Processed :
        LET pre == fuse_pre.funcs[j].body
            new == fuse_m.funcs[j].body
        IN  /\ OrderKept(pre, new)
            /\ \A kv \in Accesses(j) :
                  IF pre.values[kv[2]].op.index = fuse_self.val.target
                  THEN new.values[kv[2]] = pre.values[kv[2]]
                  ELSE Resolved(pre, new, kv[1], kv[2], Address)

\* C13 as stated: process turns every load or store on a memory i other
\* than the target, with address a, into an I32Const of i, a call of
\* sk%resolve with (a, that constant) and the access on the target memory
\* at the call's result; what is inserted precedes the access in the
\* block, the original instructions keep their order, and accesses to the
\* target memory are untouched
C13_ProcessResolvesEveryAccess ==
    ProcessRewrites(LAMBDA pre, new, k, v, addr : addr = pre.values[v].args[1])

\* the address handed to sk%resolve: a itself when memory i and the target
\* memory have the same address width, and otherwise an inserted
\* I32WrapI64 (memory i is 64-bit) or I64ExtendI32U (the target is 64-bit)
\* of a
BridgedAddress(pre, new, k, v, addr) ==
    LET o == pre.values[v]
        a == fuse_m.memories[o.op.index].memory64
        t == fuse_m.memories[fuse_self.val.target].memory64
    IN  IF a = t THEN addr = o.args[1]
        ELSE /\ InsertedBefore(pre, new, k, addr, v)
             /\ new.values[addr].op.name
                    = (IF a THEN "I32WrapI64" ELSE "I64ExtendI32U")
             /\ new.values[addr].args = <<o.args[1]>>

\* C13, amended: as stated when memory i and the target memory have the
\* same address width; when the widths differ the first argument of
\* sk%resolve is an inserted I32WrapI64 or I64ExtendI32U of a, which also
\* precedes the access in the block
C13_ProcessResolvesBridgedAccess ==
    ProcessRewrites(BridgedAddress)

\* process has rewritten an access to a memory other than the target and
\* has passed an access to the target memory, in one function
C13_Witness ==
    \E j \in Processed :
        /\ \E kv \in Accesses(j) :
              fuse_pre.funcs[j].body.values[kv[2]].op.index # fuse_self.val.target
              /\ fuse_pre.funcs[j].name = "f"
        /\ \E kv \in Accesses(j) :
              fuse_pre.funcs[j].body.values[kv[2]].op.index = fuse_self.val.target

(***************************************************************************)
(* metafuse_all on its own, and the start chain it builds run on the       *)
(* emptied memories.  A memory of the run is its size in pages and its     *)
(* bytes at the addresses 0..MaxAddr; every address of the model lies in   *)
(* the first page, so a store traps exactly when the memory has no page.   *)
(***************************************************************************)
MaxSegments == 2
MaxAddr == 2

SegmentChoices ==
    {MemorySegment(o, d) : o \in 0..1, d \in {<<1>>, <<2>>, <<1, 2>>}}

SegmentLists == UNION {[1..n -> SegmentChoices] : n \in 0..MaxSegments}

\* a module of one or two memories, the second one imported, with or
\* without a start function
UnmemModule(segments, second, start) ==
    MkModule(<<MkDecl("s", <<>>, TReturn(<<>>))>>, <<>>,
             <<MemoryData_of(1, segments, FALSE)>>
                 \o (IF second
                     THEN <<MemoryData_of(2, <<MemorySegment(1, <<2>>)>>, FALSE)>>
                     ELSE <<>>),
             <<>>,
             IF second THEN <<Import("env", "mem", ImportKind("Memory", 2))>>
             ELSE <<>>,
             <<>>, IF start THEN 1 ELSE 0)

UnmemModules ==
    {UnmemModule(s, second, start) :
        s \in SegmentLists, second \in BOOLEAN, start \in BOOLEAN}

\* a write of one byte
store8(mem, addr, byte) == [mem EXCEPT !.bytes[addr] = byte]

\* the bytes of a memory after its segments are applied in list order
RECURSIVE apply_pairs(_, _)
apply_pairs(mem, pairs) ==
    IF pairs = <<>> THEN mem
    ELSE apply_pairs(store8(mem, Head(pairs)[1], Head(pairs)[2]), Tail(pairs))

\* a memory as instantiation leaves it
instantiate(dat) ==
    apply_pairs([pages |-> dat.initial_pages, bytes |-> [a \in 0..MaxAddr |-> 0]],
                segment_pairs(dat.segments))

UnmemInit ==
    /\ unmem_m \in UnmemModules
    /\ unmem_orig = unmem_m
    /\ unmem_cfg \in {"All", "ImportsOnly"}
    /\ unmem_pc = "pass"
    /\ unmem_stack = <<>>
    /\ unmem_mem = <<>>
    /\ unmem_trace = <<>>
    /\ KtsOff
    /\ FtsOff
    /\ CopOff
    /\ PassesOff("unmem")

\* metafuse_all(m, cfg)
Unmem_metafuse_all ==
    /\ unmem_pc = "pass"
    /\ unmem_m' = metafuse_all(unmem_m, unmem_cfg)
    /\ unmem_pc' = "instantiate"
    /\ UNCHANGED <<unmem_orig, unmem_cfg, unmem_stack, unmem_mem, unmem_trace,
                   notUnmem>>

RunFrame(func) == [func |-> func, pc |-> 1]

\* the module is instantiated: the memories get their initial pages and
\* segments, and the start function, if any, is entered
Unmem_instantiate ==
    /\ unmem_pc = "instantiate"
    /\ unmem_mem' = [i \in DOMAIN unmem_m.memories |->
                        instantiate(unmem_m.memories[i])]
    /\ IF unmem_m.start_func = 0
       THEN /\ unmem_pc' = "done"
            /\ UNCHANGED <<unmem_stack, unmem_trace>>
       ELSE /\ unmem_pc' = "run"
            /\ unmem_stack' = <<RunFrame(unmem_m.start_func)>>
            /\ unmem_trace' = <<unmem_m.start_func>>
    /\ UNCHANGED <<unmem_m, unmem_orig, unmem_cfg, notUnmem>>

RunBody == unmem_m.funcs[Top(unmem_stack).func].body
RunInsts == RunBody.blocks[RunBody.entry].insts
RunAtInst == unmem_pc = "run" /\ Top(unmem_stack).pc <= Len(RunInsts)
RunInst == RunBody.values[RunInsts[Top(unmem_stack).pc]]
\* the value of an operand, which is an I32Const in every body of the run
RunArg(i) == RunBody.values[RunInst.args[i]].op.index
RunAdvance == [unmem_stack EXCEPT ![Len(unmem_stack)].pc = @ + 1]

\* an I32Const
Unmem_exec_const ==
    /\ RunAtInst
    /\ RunInst.op.name \in {"I32Const", "Nop"}
    /\ unmem_stack' = RunAdvance
    /\ UNCHANGED <<unmem_m, unmem_orig, unmem_cfg, unmem_pc, unmem_mem,
                   unmem_trace, notUnmem>>

\* an I32Store8 of the byte args[1] at the address args[0]; it traps on a
\* memory without pages
Unmem_exec_store ==
    /\ RunAtInst
    /\ RunInst.op.name = "I32Store8"
    /\ IF unmem_mem[RunInst.op.index].pages = 0
       THEN /\ unmem_pc' = "trap"
            /\ UNCHANGED <<unmem_stack, unmem_mem>>
       ELSE /\ unmem_mem' = [unmem_mem EXCEPT ![RunInst.op.index] =
                                store8(@, RunArg(1), RunArg(2))]
            /\ unmem_stack' = RunAdvance
            /\ UNCHANGED unmem_pc
    /\ UNCHANGED <<unmem_m, unmem_orig, unmem_cfg, unmem_trace, notUnmem>>

\* a MemoryGrow by args[0] pages
Unmem_exec_grow ==
    /\ RunAtInst
    /\ RunInst.op.name = "MemoryGrow"
    /\ unmem_mem' = [unmem_mem EXCEPT ![RunInst.op.index].pages = @ + RunArg(1)]
    /\ unmem_stack' = RunAdvance
    /\ UNCHANGED <<unmem_m, unmem_orig, unmem_cfg, unmem_pc, unmem_trace,
                   notUnmem>>

\* a Call: the callee is entered, the caller goes on behind the call
Unmem_exec_call ==
    /\ RunAtInst
    /\ RunInst.op.name = "Call"
    /\ unmem_stack' = Append(RunAdvance, RunFrame(RunInst.op.index))
    /\ unmem_trace' = Append(unmem_trace, RunInst.op.index)
    /\ UNCHANGED <<unmem_m, unmem_orig, unmem_cfg, unmem_pc, unmem_mem,
                   notUnmem>>

RunAtTerminator == unmem_pc = "run" /\ Top(unmem_stack).pc > Len(RunInsts)
RunTerminator == RunBody.blocks[RunBody.entry].terminator

\* a Return: back to the caller, or the start chain has ended
Unmem_exec_return ==
    /\ RunAtTerminator
    /\ RunTerminator.kind = "Return"
    /\ unmem_stack' = Pop(unmem_stack)
    /\ unmem_pc' = IF Len(unmem_stack) = 1 THEN "done" ELSE "run"
    /\ UNCHANGED <<unmem_m, unmem_orig, unmem_cfg, unmem_mem, unmem_trace,
                   notUnmem>>

\* a ReturnCall: the callee takes the place of the caller
Unmem_exec_return_call ==
    /\ RunAtTerminator
    /\ RunTerminator.kind = "ReturnCall"
    /\ unmem_stack' = Append(Pop(unmem_stack), RunFrame(RunTerminator.func))
    /\ unmem_trace' = Append(unmem_trace, RunTerminator.func)
    /\ UNCHANGED <<unmem_m, unmem_orig, unmem_cfg, unmem_pc, unmem_mem,
                   notUnmem>>

NextUnmem ==
    \/ Unmem_metafuse_all
    \/ Unmem_instantiate
    \/ Unmem_exec_const
    \/ Unmem_exec_store
    \/ Unmem_exec_grow
    \/ Unmem_exec_call
    \/ Unmem_exec_return
    \/ Unmem_exec_return_call

SpecUnmem == UnmemInit /\ [][NextUnmem]_vars

(***************************************************************************)
(* Claims about unmem.                                                     *)
(***************************************************************************)
UnmemAllDone == unmem_cfg = "All" /\ unmem_pc \in {"instantiate", "run", "done", "trap"}

\* C14: after metafuse_all(m, All) every memory of m has no segment and
\* initial_pages = 0, however many memories and segments m had
C14_UnmemEmptiesMemories ==
    UnmemAllDone =>
        /\ Len(unmem_m.memories) = Len(unmem_orig.memories)
        /\ \A i \in DOMAIN unmem_m.memories :
              /\ unmem_m.memories[i].segments = <<>>
              /\ unmem_m.memories[i].initial_pages = 0

\* metafuse_all(m, All) has run on two memories, the first of two segments
C14_Witness ==
    /\ UnmemAllDone
    /\ Len(unmem_orig.memories) = 2
    /\ Len(unmem_orig.memories[1].segments) = 2
    /\ unmem_m.memories[1].segments = <<>>

UnmemRan == unmem_cfg = "All" /\ unmem_pc \in {"done", "trap"}

\* C15: the start chain built by metafuse_all(m, All), run on the emptied
\* memories, ends with every memory holding the bytes its original
\* segments give when applied in list order, a later segment overwriting
\* an earlier one, for any segment list
C15_UnmemPreservesImage ==
    UnmemRan =>
        /\ unmem_pc = "done"
        /\ \A i \in DOMAIN unmem_mem :
              unmem_mem[i].bytes = instantiate(unmem_orig.memories[i]).bytes

\* the same for memories whose pairs fit into one chunk
UnmemPreservesImageOfOneChunk ==
    UnmemRan =>
        /\ unmem_pc = "done"
        /\ \A i \in DOMAIN unmem_mem :
              Len(segment_pairs(unmem_orig.memories[i].segments)) <= ChunkSize
              => unmem_mem[i].bytes = instantiate(unmem_orig.memories[i]).bytes

\* the functions metafuse_all has added, by what they are
Added == {f \in DOMAIN unmem_m.funcs : f > Len(unmem_orig.funcs)}
Shims == {f \in Added : unmem_m.funcs[f].name = "start"}
Synthesized == {f \in Added : unmem_m.funcs[f].name = "z"}
HasOp(f, name, mem) ==
    \E v \in DOMAIN unmem_m.funcs[f].body.values :
        unmem_m.funcs[f].body.values[v].op = Op(name, mem)
GrowOf(mem) == {f \in Synthesized : HasOp(f, "MemoryGrow", mem)}
StoresOf(mem) == {f \in Synthesized : HasOp(f, "I32Store8", mem)}

Entered(f) == \E i \in DOMAIN unmem_trace : unmem_trace[i] = f
EnteredBefore(f, g) ==
    \E i, j \in DOMAIN unmem_trace :
        i < j /\ unmem_trace[i] = f /\ unmem_trace[j] = g

\* the start function add_start found when it made the shim f
StartBefore(f) ==
    IF \E g \in Shims : g < f
    THEN CHOOSE g \in Shims : g < f /\ \A h \in Shims : h < f => h <= g
    ELSE unmem_orig.start_func

\* the shim f calls the function added just before it and then tail-calls
\* the previous start function, or returns when there was none
ShimShape(f) ==
    LET body == unmem_m.funcs[f].body
        insts == body.blocks[body.entry].insts
    IN  /\ Len(insts) = 1
        /\ body.values[insts[1]].op = Op("Call", f - 1)
        /\ f - 1 \in Synthesized
        /\ body.blocks[body.entry].terminator
               = (IF StartBefore(f) # 0 THEN TReturnCall(StartBefore(f), <<>>)
                  ELSE TReturn(<<>>))

\* C16: every start function made by add_start calls its function first
\* and then tail-calls the previous start function or returns; so, per
\* memory, the synthesized MemoryGrow function (growing by the recorded
\* initial pages) runs before every synthesized store function of that
\* memory, and the previous start function of the module runs only after
\* all synthesized functions
C16_StartChainOrder ==
    UnmemAllDone =>
        /\ \A f \in Shims : ShimShape(f)
        /\ \A mem \in DOMAIN unmem_orig.memories :
              /\ \E g \in GrowOf(mem) :
                    /\ GrowOf(mem) = {g}
                    /\ HasOp(g, "I32Const", unmem_orig.memories[mem].initial_pages)
                    /\ \A s \in StoresOf(mem) : Entered(s) => EnteredBefore(g, s)
        /\ unmem_orig.start_func # 0 =>
              \A z \in Synthesized :
                  Entered(unmem_orig.start_func)
                      => EnteredBefore(z, unmem_orig.start_func)
        /\ unmem_pc = "done" => \A z \in Synthesized : Entered(z)

\* the chain of a memory of two store functions has run to its end, the
\* previous start function included
C16_Witness ==
    /\ UnmemRan
    /\ unmem_orig.start_func # 0
    /\ Entered(unmem_orig.start_func)
    /\ \E s, t \in StoresOf(1) : s # t /\ EnteredBefore(s, t)

(***************************************************************************)
(* Reordering of functions (passes/reorder_funs.rs).                       *)
(***************************************************************************)
\* reorder_funcs_in_body: the Call operators and ReturnCall terminators
reorder_funcs_in_body(b, fs) ==
    [b EXCEPT
        !.values = [v \in DOMAIN b.values |->
            IF b.values[v].kind = "Operator" /\ b.values[v].op.name = "Call"
            THEN [b.values[v] EXCEPT !.op.index = fs[@]]
            ELSE b.values[v]],
        !.blocks = [k \in DOMAIN b.blocks |->
            IF b.blocks[k].terminator.kind = "ReturnCall"
            THEN [b.blocks[k] EXCEPT !.terminator.func = fs[@]]
            ELSE b.blocks[k]]]

\* the first loop of reorder_funcs: n[fs[f]] = the rewritten m.funcs[f],
\* by ascending f
RECURSIVE reorder_funcs_move(_, _, _, _)
reorder_funcs_move(n, funcs, fs, f) ==
    IF f > Len(funcs) THEN n
    ELSE reorder_funcs_move(
             [n EXCEPT ![fs[f]] =
                 IF funcs[f].kind = "Body"
                 THEN [funcs[f] EXCEPT !.body = reorder_funcs_in_body(@, fs)]
                 ELSE funcs[f]],
             funcs, fs, f + 1)

\* reorder_funcs: the functions, the elements of the tables, the function
\* imports and the function exports
reorder_funcs(m, fs) ==
    [m EXCEPT
        !.funcs = reorder_funcs_move(@, @, fs, 1),
        !.tables = [t \in DOMAIN m.tables |->
            IF m.tables[t].has_func_elements
            THEN [m.tables[t] EXCEPT !.func_elements = MapSeq(@, fs)]
            ELSE m.tables[t]],
        !.imports = [i \in DOMAIN m.imports |->
            IF m.imports[i].kind.import = "Func"
            THEN [m.imports[i] EXCEPT !.kind.id = fs[@]]
            ELSE m.imports[i]],
        !.exports = [i \in DOMAIN m.exports |->
            IF m.exports[i].kind.export = "Func"
            THEN [m.exports[i] EXCEPT !.kind.id = fs[@]]
            ELSE m.exports[i]]]

\* the map of fixup_orders: the imported functions first, then the others,
\* each group in its order; Func::invalid() (0) maps to itself
fixup_orders_map(m) ==
    LET a == SelectSeq([f \in DOMAIN m.funcs |-> f],
                       LAMBDA f : m.funcs[f].kind = "Import")
        b == SelectSeq([f \in DOMAIN m.funcs |-> f],
                       LAMBDA f : m.funcs[f].kind # "Import")
        order == a \o b
    IN  [f \in {0} \cup DOMAIN m.funcs |->
            IF f = 0 THEN 0 ELSE InstPos(order, f)]

fixup_orders(m) == reorder_funcs(m, fixup_orders_map(m))

\* the modules of tree_shake, also with a table of function elements
ReorderModules ==
    ShapedModules
    \cup {[m EXCEPT !.tables = <<TableData(TRUE, <<Len(m.funcs), 1>>)>>] :
             m \in ShapedModules}

ReorderInit ==
    /\ reorder_m \in ReorderModules
    /\ reorder_orig = reorder_m
    /\ reorder_fs = <<>>
    /\ reorder_pc = "call"
    /\ KtsOff
    /\ FtsOff
    /\ CopOff
    /\ PassesOff("reorder")

Reorder_fixup_orders ==
    /\ reorder_pc = "call"
    /\ reorder_fs' = fixup_orders_map(reorder_m)
    /\ reorder_m' = fixup_orders(reorder_m)
    /\ reorder_pc' = "done"
    /\ UNCHANGED <<reorder_orig, notReorder>>

NextReorder == Reorder_fixup_orders

SpecReorder == ReorderInit /\ [][NextReorder]_vars

(***************************************************************************)
(* Claims about fixup_orders.                                              *)
(***************************************************************************)
\* fs is a bijection on the function ids of the module
ReorderBijection ==
    /\ DOMAIN reorder_fs = {0} \cup DOMAIN reorder_orig.funcs
    /\ {reorder_fs[f] : f \in DOMAIN reorder_orig.funcs} = DOMAIN reorder_orig.funcs
    /\ Len(reorder_m.funcs) = Len(reorder_orig.funcs)

\* the declaration f is at fs[f], and its references of the kinds in ops
\* and its ReturnCall terminators are its old ones seen through fs
DeclMoved(f, ops) ==
    LET old == reorder_orig.funcs[f]
        new == reorder_m.funcs[reorder_fs[f]]
    IN  /\ new.kind = old.kind
        /\ new.name = old.name
        /\ old.kind = "Body" =>
              /\ DOMAIN new.body.values = DOMAIN old.body.values
              /\ \A v \in DOMAIN old.body.values :
                    old.body.values[v].op.name \in ops =>
                        /\ new.body.values[v].op.name = old.body.values[v].op.name
                        /\ new.body.values[v].op.index
                               = reorder_fs[old.body.values[v].op.index]
              /\ \A k \in DOMAIN old.body.blocks :
                    old.body.blocks[k].terminator.kind = "ReturnCall" =>
                        /\ new.body.blocks[k].terminator.kind = "ReturnCall"
                        /\ new.body.blocks[k].terminator.func
                               = reorder_fs[old.body.blocks[k].terminator.func]

ModuleRefsMoved ==
    /\ \A t \in DOMAIN reorder_orig.tables :
          reorder_m.tables[t].func_elements
              = MapSeq(reorder_orig.tables[t].func_elements, reorder_fs)
    /\ \A i \in DOMAIN reorder_orig.imports :
          reorder_m.imports[i]
              = [reorder_orig.imports[i] EXCEPT !.kind.id = reorder_fs[@]]
    /\ \A i \in DOMAIN reorder_orig.exports :
          reorder_m.exports[i]
              = [reorder_orig.exports[i] EXCEPT !.kind.id = reorder_fs[@]]

\* C17: fixup_orders renumbers the functions by a bijection p, and every
\* recorded function id (Call and RefFunc operators, ReturnCall
\* terminators, table func_elements, function imports and exports,
\* start_func) is replaced by its image under p, so that each reference
\* denotes the same declaration as before
C17_ReorderKeepsReferences ==
    reorder_pc = "done" =>
        /\ ReorderBijection
        /\ \A f \in DOMAIN reorder_orig.funcs : DeclMoved(f, {"Call", "RefFunc"})
        /\ ModuleRefsMoved
        /\ reorder_m.start_func = reorder_fs[reorder_orig.start_func]

\* the same without the RefFunc operators and start_func
ReorderKeepsCallsAndTables ==
    reorder_pc = "done" =>
        /\ ReorderBijection
        /\ \A f \in DOMAIN reorder_orig.funcs : DeclMoved(f, {"Call"})
        /\ ModuleRefsMoved

\* RefFunc operators and start_func keep the id they had
ReorderLeavesRefFuncAndStart ==
    reorder_pc = "done" =>
        /\ reorder_m.start_func = reorder_orig.start_func
        /\ \A f \in DOMAIN reorder_orig.funcs :
              reorder_orig.funcs[f].kind = "Body" =>
                  \A v \in DOMAIN reorder_orig.funcs[f].body.values :
                      reorder_orig.funcs[f].body.values[v].op.name = "RefFunc" =>
                          reorder_m.funcs[reorder_fs[f]].body.values[v]
                              = reorder_orig.funcs[f].body.values[v]

(***************************************************************************)
(* Aliases (ir/func.rs 274-343).  A walk along Alias definitions that is   *)
(* longer than the arena has met a value twice and never ends in the code; *)
(* the model gives it the result Diverges.                                 *)
(***************************************************************************)
MaxValues == 4

Diverges == [diverges |-> TRUE, value |-> 0]
Resolves(value) == [diverges |-> FALSE, value |-> value]

\* the loop of resolve_alias
RECURSIVE resolve_alias_loop(_, _, _)
resolve_alias_loop(values, result, steps) ==
    IF values[result].kind # "Alias" THEN Resolves(result)
    ELSE IF steps > Len(values) THEN Diverges
    ELSE resolve_alias_loop(values, values[result].value, steps + 1)

\* FunctionBody::resolve_alias; 0 is Value::invalid()
resolve_alias(values, value) ==
    IF value = 0 THEN Resolves(0) ELSE resolve_alias_loop(values, value, 1)

\* FunctionBody::resolve_and_update_alias: the chain is short-circuited
resolve_and_update_alias(values, value) ==
    LET to == resolve_alias(values, value)
    IN  [to |-> to,
         values |-> IF /\ ~to.diverges
                       /\ values[value].kind = "Alias"
                       /\ values[value].value # to.value
                    THEN [values EXCEPT ![value] = VAlias(to.value)]
                    ELSE values]

\* FunctionBody::set_alias without the resolution of to
set_alias_unresolved(values, value, to) ==
    IF to = value THEN [status |-> "panic", values |-> values]
    ELSE [status |-> "ok", values |-> [values EXCEPT ![value] = VAlias(to)]]

\* FunctionBody::set_alias
set_alias(values, value, to) ==
    LET r == resolve_and_update_alias(values, to)
    IN  IF r.to.diverges THEN [status |-> "hang", values |-> values]
        ELSE IF r.to.value = value THEN [status |-> "panic", values |-> r.values]
        ELSE [status |-> "ok",
              values |-> [r.values EXCEPT ![value] = VAlias(r.to.value)]]

AliasCall(op, value, to) == [op |-> op, value |-> value, to |-> to]

AliasInit ==
    /\ alias_values = <<>>
    /\ alias_pc = "ok"
    /\ alias_call = AliasCall("new", 0, 0)
    /\ KtsOff
    /\ FtsOff
    /\ CopOff
    /\ PassesOff("alias")

\* add_value of an operator, or of an alias of a value of the arena
Alias_add_value ==
    /\ alias_pc = "ok"
    /\ Len(alias_values) < MaxValues
    /\ \E def \in {VOperator(Op("Nop", 0), <<>>, <<>>)}
                      \cup {VAlias(w) : w \in DOMAIN alias_values} :
          /\ alias_values' = Append(alias_values, def)
          /\ alias_call' = AliasCall("add_value", Len(alias_values) + 1,
                                     IF def.kind = "Alias" THEN def.value ELSE 0)
    /\ UNCHANGED <<alias_pc, notAlias>>

\* set_alias(value, to) on values of the arena
Alias_set_alias ==
    /\ alias_pc = "ok"
    /\ \E value, to \in DOMAIN alias_values :
          LET r == set_alias(alias_values, value, to)
          IN  /\ alias_values' = r.values
              /\ alias_pc' = r.status
              /\ alias_call' = AliasCall("set_alias", value, to)
    /\ UNCHANGED notAlias

\* resolve_and_update_alias(value) on a value of the arena
Alias_resolve_and_update_alias ==
    /\ alias_pc = "ok"
    /\ \E value \in DOMAIN alias_values :
          LET r == resolve_and_update_alias(alias_values, value)
          IN  /\ alias_values' = r.values
              /\ alias_pc' = IF r.to.diverges THEN "hang" ELSE "ok"
              /\ alias_call' = AliasCall("resolve_and_update_alias", value, 0)
    /\ UNCHANGED notAlias

NextAlias ==
    \/ Alias_add_value
    \/ Alias_set_alias
    \/ Alias_resolve_and_update_alias

SpecAlias == AliasInit /\ [][NextAlias]_vars

(***************************************************************************)
(* Claims about aliases.                                                   *)
(***************************************************************************)
\* resolve_alias ends on every value, at a value that is no alias
AliasesResolve ==
    \A v \in DOMAIN alias_values :
        /\ ~resolve_alias(alias_values, v).diverges
        /\ alias_values[resolve_alias(alias_values, v).value].kind # "Alias"

\* a call of set_alias panics exactly when its to resolved to its value
SetAliasPanics ==
    alias_call'.op = "set_alias" =>
        /\ alias_pc' \in {"ok", "panic"}
        /\ alias_pc' = "panic"
              <=> resolve_alias(alias_values, alias_call'.to).value
                      = alias_call'.value

MaxEdgeBlocks == 2

\* Terminator::update_target with the closure of split_edge
update_target(t, index, block) ==
    CASE t.kind = "Br" /\ index = 0     -> [t EXCEPT !.target.block = block]
      [] t.kind = "CondBr" /\ index = 0 -> [t EXCEPT !.if_true.block = block]
      [] t.kind = "CondBr" /\ index = 1 -> [t EXCEPT !.if_false.block = block]
      [] t.kind = "Select" /\ index = 0 -> [t EXCEPT !.default.block = block]
      [] t.kind = "Select" /\ index > 0 /\ index <= Len(t.targets) ->
             [t EXCEPT !.targets[index].block = block]

\* split_edge that leaves the position recorded in the target block
split_edge_keeping_pos(body, from, to, succ_idx) ==
    LET pred_idx == body.blocks[from].pos_in_succ_pred[succ_idx + 1]
        b1 == add_block(body)
        edge_block == Len(b1.blocks)
        b2 == add_blockparams(b1, edge_block, ParamTypes(b1.blocks[to]))
    IN  [b2 EXCEPT
            !.blocks[edge_block].terminator =
                TBr(BlockTarget(to, ParamValues(b2.blocks[edge_block]))),
            !.blocks[edge_block].succs = <<to>>,
            !.blocks[edge_block].pos_in_succ_pred = <<pred_idx>>,
            !.blocks[edge_block].preds = <<from>>,
            !.blocks[edge_block].pos_in_pred_succ = <<succ_idx>>,
            !.blocks[from].terminator = update_target(@, succ_idx, edge_block),
            !.blocks[from].succs[succ_idx + 1] = edge_block,
            !.blocks[from].pos_in_succ_pred[succ_idx + 1] = 0,
            !.blocks[to].preds[pred_idx + 1] = edge_block]

\* FunctionBody::split_edge, for an edge the two assertions accept
split_edge(body, from, to, succ_idx) ==
    LET pred_idx == body.blocks[from].pos_in_succ_pred[succ_idx + 1]
        b1 == add_block(body)
        edge_block == Len(b1.blocks)
        b2 == add_blockparams(b1, edge_block, ParamTypes(b1.blocks[to]))
        b3 == [b2 EXCEPT
                  !.blocks[edge_block].terminator =
                      TBr(BlockTarget(to, ParamValues(b2.blocks[edge_block]))),
                  !.blocks[from].terminator = update_target(@, succ_idx, edge_block)]
        b4 == [b3 EXCEPT
                  !.blocks[edge_block].succs = <<to>>,
                  !.blocks[edge_block].pos_in_succ_pred = <<pred_idx>>,
                  !.blocks[edge_block].preds = <<from>>,
                  !.blocks[edge_block].pos_in_pred_succ = <<succ_idx>>]
        b5 == [b4 EXCEPT !.blocks[from].succs[succ_idx + 1] = edge_block]
        b6 == [b5 EXCEPT !.blocks[from].pos_in_succ_pred[succ_idx + 1] = 0]
        b7 == [b6 EXCEPT !.blocks[to].preds[pred_idx + 1] = edge_block]
    IN  [b7 EXCEPT !.blocks[to].pos_in_pred_succ[pred_idx + 1] = 0]

\* the terminators set_terminator is called with: the targets are blocks of
\* the body, with one argument per parameter of the target
EdgeTarget(body, b) ==
    BlockTarget(b, [i \in DOMAIN body.blocks[b].params |-> 1])

EdgeTerminators(body) ==
    {TReturn(<<>>)}
    \cup {TBr(EdgeTarget(body, b)) : b \in DOMAIN body.blocks}
    \cup {TCondBr(1, EdgeTarget(body, a), EdgeTarget(body, b)) :
             a \in DOMAIN body.blocks, b \in DOMAIN body.blocks}
    \cup {TSelect(1, <<EdgeTarget(body, a)>>, EdgeTarget(body, b)) :
             a \in DOMAIN body.blocks, b \in DOMAIN body.blocks}

EdgeCall(op, block, index) == [op |-> op, block |-> block, index |-> index]

\* a new body of one parameter: the entry block, without terminator
EdgeInit ==
    /\ edge_body = FunctionBody_new(
                       [signatures |-> <<SigFunc(<<"I32">>, <<>>)>>], 1)
    /\ edge_call = EdgeCall("new", 0, 0)
    /\ KtsOff
    /\ FtsOff
    /\ CopOff
    /\ PassesOff("edge")

Edge_add_block ==
    /\ Len(edge_body.blocks) < MaxEdgeBlocks
    /\ edge_body' = add_block(edge_body)
    /\ edge_call' = EdgeCall("add_block", Len(edge_body.blocks) + 1, 0)
    /\ UNCHANGED notEdge

\* set_terminator on a block whose terminator is None
Edge_set_terminator ==
    /\ \E block \in DOMAIN edge_body.blocks :
          /\ edge_body.blocks[block].terminator = TNone
          /\ \E t \in EdgeTerminators(edge_body) :
                edge_body' = set_terminator(edge_body, block, t)
          /\ edge_call' = EdgeCall("set_terminator", block, 0)
    /\ UNCHANGED notEdge

\* split_edge(from, to, succ_idx) on an edge of the body
Edge_split_edge ==
    /\ Len(edge_body.blocks) < MaxEdgeBlocks
    /\ \E from \in DOMAIN edge_body.blocks :
          \E i \in DOMAIN edge_body.blocks[from].succs :
              /\ edge_body' = split_edge(edge_body, from,
                                         edge_body.blocks[from].succs[i], i - 1)
              /\ edge_call' = EdgeCall("split_edge", from, i - 1)
    /\ UNCHANGED notEdge

Edge_recompute_edges ==
    /\ edge_body' = recompute_edges(edge_body)
    /\ edge_call' = EdgeCall("recompute_edges", 0, 0)
    /\ UNCHANGED notEdge

NextEdge ==
    \/ Edge_add_block
    \/ Edge_set_terminator
    \/ Edge_split_edge
    \/ Edge_recompute_edges

SpecEdge == EdgeInit /\ [][NextEdge]_vars

(***************************************************************************)
(* Claims about the edge lists.                                            *)
(***************************************************************************)
BlockEdgesConsistent(B) ==
    LET b == edge_body.blocks[B]
    IN  /\ b.succs = visit_successors(b.terminator)
        /\ Len(b.pos_in_succ_pred) = Len(b.succs)
        /\ Len(b.pos_in_pred_succ) = Len(b.preds)
        /\ \A i \in DOMAIN b.succs :
              /\ b.pos_in_succ_pred[i] + 1 \in DOMAIN edge_body.blocks[b.succs[i]].preds
              /\ edge_body.blocks[b.succs[i]].preds[b.pos_in_succ_pred[i] + 1] = B
        /\ \A j \in DOMAIN b.preds :
              /\ b.pos_in_pred_succ[j] + 1 \in DOMAIN edge_body.blocks[b.preds[j]].succs
              /\ edge_body.blocks[b.preds[j]].succs[b.pos_in_pred_succ[j] + 1] = B

TakeDecls == {FuncDecl_None, FuncDecl_Import(1, "x"), Nop}

TakeInit ==
    /\ take_funcs \in UNION {[1..n -> TakeDecls] : n \in 1..MaxFuncs}
    /\ take_orig = take_funcs
    /\ take_op \in {"take_per_func_body", "try_take_per_func_body"}
    /\ take_pc = "loop"
    /\ take_i = 1
    /\ take_x = FuncDecl_None
    /\ KtsOff
    /\ FtsOff
    /\ CopOff
    /\ PassesOff("take")

\* the functions the loop visits are those the module had at the call
TakeAt == take_pc = "loop" /\ take_i <= Len(take_orig)

\* std::mem::take of the slot of a body: the callback is entered
Take_take ==
    /\ TakeAt
    /\ take_funcs[take_i].kind = "Body"
    /\ take_x' = take_funcs[take_i]
    /\ take_funcs' = [take_funcs EXCEPT ![take_i] = FuncDecl_None]
    /\ take_pc' = "callback"
    /\ UNCHANGED <<take_orig, take_op, take_i, notTake>>

\* a slot without body: it is taken and put back at once
Take_skip ==
    /\ TakeAt
    /\ take_funcs[take_i].kind # "Body"
    /\ take_i' = take_i + 1
    /\ UNCHANGED <<take_funcs, take_orig, take_op, take_pc, take_x, notTake>>

\* the callback changes the body it holds or pushes a function
Take_callback_work ==
    /\ take_pc = "callback"
    /\ \/ /\ Len(take_x.body.blocks) < 2
          /\ take_x' = [take_x EXCEPT !.body = add_block(@)]
          /\ UNCHANGED take_funcs
       \/ /\ Len(take_funcs) <= Len(take_orig)
          /\ take_funcs' = Append(take_funcs, FuncDecl_Import(1, "y"))
          /\ UNCHANGED take_x
    /\ UNCHANGED <<take_orig, take_op, take_pc, take_i, notTake>>

\* the callback returns: the slot gets the declaration back; an error of
\* the try form leaves the loop after that
Take_callback_return ==
    /\ take_pc = "callback"
    /\ \E z \in {"Ok", "Err"} :
          /\ z = "Err" => take_op = "try_take_per_func_body"
          /\ take_pc' = IF z = "Err" THEN "err" ELSE "loop"
    /\ take_funcs' = [take_funcs EXCEPT ![take_i] = take_x]
    /\ take_x' = FuncDecl_None
    /\ take_i' = take_i + 1
    /\ UNCHANGED <<take_orig, take_op, notTake>>

\* the callback panics: the stack unwinds through the loop, the
\* declaration held in x is dropped
Take_callback_panic ==
    /\ take_pc = "callback"
    /\ take_pc' = "panic"
    /\ take_x' = FuncDecl_None
    /\ UNCHANGED <<take_funcs, take_orig, take_op, take_i, notTake>>

\* the loop has visited every function
Take_return ==
    /\ take_pc = "loop"
    /\ take_i > Len(take_orig)
    /\ take_pc' = "done"
    /\ UNCHANGED <<take_funcs, take_orig, take_op, take_i, take_x, notTake>>

NextTake ==
    \/ Take_take
    \/ Take_skip
    \/ Take_callback_work
    \/ Take_callback_return
    \/ Take_callback_panic
    \/ Take_return

SpecTake == TakeInit /\ [][NextTake]_vars

(***************************************************************************)
(* Claims about take_per_func_body.                                        *)
(***************************************************************************)
TombstoneDuringCallback ==
    take_pc = "callback" => take_funcs[take_i] = FuncDecl_None

Restored ==
    \A j \in DOMAIN take_orig :
        take_orig[j].kind # "None" => take_funcs[j].kind # "None"

\* C20: while the callback runs on function i the slot funcs[i] is the None
\* tombstone, and once take_per_func_body or try_take_per_func_body is left
\* by any path (normal return, an error of the callback, a panic in the
\* callback) no slot that held a declaration before is None
C20_TakeRestoresEverySlot ==
    /\ TombstoneDuringCallback
    /\ take_pc \in {"done", "err", "panic"} => Restored

\* the same for the paths that are no panic
TakeRestoresUnlessPanic ==
    /\ TombstoneDuringCallback
    /\ take_pc \in {"loop", "done", "err"} => Restored

\* after a panic the slot of the function the callback ran on is None
TakePanicLosesSlot ==
    take_pc = "panic" => take_funcs[take_i].kind = "None"

(***************************************************************************)
(* The subtype relation (ir.rs 7-142).  A Type is a record here, so that   *)
(* a heap type carries its WithNullable<HeapType>.                         *)
(***************************************************************************)
MaxSigs == 2

\* StorageType::unpack
unpack(s) ==
    CASE s.storage = "Val" -> s.val
      [] s.storage = "I8"  -> TyVal("I32")
      [] s.storage = "I16" -> TyVal("I64")

RECURSIVE Signature_subtypes(_, _, _, _)
RECURSIVE SignatureData_subtypes(_, _, _, _)
RECURSIVE Type_subtypes(_, _, _, _)
RECURSIVE HeapType_subtypes(_, _, _, _)

\* impl Subtypes for WithNullable<T> with the test of the flags the other
\* way round
WithNullable_subtypes_widening(a, b, module, vsigs) ==
    /\ (a.nullable = b.nullable \/ b.nullable)
    /\ HeapType_subtypes(a.value, b.value, module, vsigs)

\* impl Subtypes for WithNullable<T> (ir.rs 81-91)
WithNullable_subtypes(a, b, module, vsigs) ==
    /\ (a.nullable = b.nullable \/ a.nullable)
    /\ HeapType_subtypes(a.value, b.value, module, vsigs)

\* impl Subtypes for WithMutablility<T> on storage types (ir.rs 71-80,
\* 92-104)
WithMutablility_subtypes(a, b, module, vsigs) ==
    /\ a.mutable = b.mutable
    /\ Type_subtypes(unpack(a.value), unpack(b.value), module, vsigs)

\* impl Subtypes for Signature: a pair under comparison is taken to hold
Signature_subtypes(a, b, module, vsigs) ==
    IF <<a, b>> \in vsigs THEN TRUE
    ELSE SignatureData_subtypes(module.signatures[a], module.signatures[b],
                                module, vsigs \cup {<<a, b>>})

\* impl Subtypes for SignatureData
SignatureData_subtypes(a, b, module, vsigs) ==
    CASE a.kind = "Array" /\ b.kind = "Array" ->
             WithMutablility_subtypes(a.ty, b.ty, module, vsigs)
      [] a.kind = "Func" /\ b.kind = "Func" ->
             /\ Len(a.params) = Len(b.params)
             /\ Len(a.returns) = Len(b.returns)
             /\ \A i \in DOMAIN a.params :
                   Type_subtypes(b.params[i], a.params[i], module, vsigs)
             /\ \A i \in DOMAIN a.returns :
                   Type_subtypes(a.returns[i], b.returns[i], module, vsigs)
      [] a.kind = "Struct" /\ b.kind = "Struct" ->
             /\ Len(a.fields) >= Len(b.fields)
             /\ \A i \in DOMAIN b.fields :
                   WithMutablility_subtypes(a.fields[i], b.fields[i], module, vsigs)
      [] OTHER -> FALSE

\* impl Subtypes for Type
Type_subtypes(a, b, module, vsigs) ==
    IF a.ty = "Heap" /\ b.ty = "Heap"
    THEN WithNullable_subtypes(a.heap, b.heap, module, vsigs)
    ELSE a.ty # "Heap" /\ a.ty = b.ty

\* impl Subtypes for HeapType
HeapType_subtypes(a, b, module, vsigs) ==
    CASE a.kind = "ExternRef" /\ b.kind = "ExternRef" -> TRUE
      [] a.kind = "FuncRef" /\ b.kind = "FuncRef" -> TRUE
      [] a.kind = "Sig" /\ b.kind = "Sig" ->
             Signature_subtypes(a.sig_index, b.sig_index, module, vsigs)
      [] a.kind = "FuncRef" /\ b.kind = "Sig" ->
             module.signatures[b.sig_index].kind = "Func"
      [] OTHER -> FALSE

\* the heap types and signatures compared: signatures that refer to
\* themselves and to each other through typed references among them
HeapTypes ==
    {HeapType("FuncRef", 0), HeapType("ExternRef", 0)}
    \cup {HeapType("Sig", s) : s \in 1..MaxSigs}

NullableHeapTypes == {WithNullable(h, n) : h \in HeapTypes, n \in BOOLEAN}

SubSignatures ==
    {SigFunc(<<>>, <<>>), SigNone,
     SigFunc(<<TyVal("I32")>>, <<>>),
     SigFunc(<<TyHeap(WithNullable(HeapType("Sig", 1), TRUE))>>,
             <<TyHeap(WithNullable(HeapType("Sig", 2), FALSE))>>),
     SigFunc(<<>>, <<TyHeap(WithNullable(HeapType("Sig", 2), TRUE))>>),
     SigStruct(<<WithMutablility(StorageI8, TRUE)>>),
     SigStruct(<<WithMutablility(StorageVal(TyVal("I32")), TRUE),
                 WithMutablility(StorageVal(TyVal("I64")), FALSE)>>),
     SigArray(WithMutablility(StorageVal(TyVal("I32")), FALSE))}

SubInit ==
    /\ sub_module \in {[signatures |-> s] : s \in [1..MaxSigs -> SubSignatures]}
    /\ sub_a \in NullableHeapTypes
    /\ sub_b \in NullableHeapTypes
    /\ sub_pc = "call"
    /\ sub_ret = FALSE
    /\ KtsOff
    /\ FtsOff
    /\ CopOff
    /\ PassesOff("sub")

\* a.subtypes(b, module, {})
Sub_subtypes ==
    /\ sub_pc = "call"
    /\ sub_ret' = WithNullable_subtypes(sub_a, sub_b, sub_module, {})
    /\ sub_pc' = "done"
    /\ UNCHANGED <<sub_module, sub_a, sub_b, notSub>>

NextSub == Sub_subtypes

SpecSub == SubInit /\ [][NextSub]_vars

(***************************************************************************)
(* Claims about subtyping.                                                 *)
(***************************************************************************)
\* C21: WithNullable(a).subtypes(WithNullable(b)) is true if and only if
\* (a.nullable implies b.nullable) and a.value subtypes b.value; so a
\* non-nullable reference is a subtype of the nullable reference of the
\* same heap type and not the other way round
C21_NullableSubtyping ==
    sub_pc = "done" =>
        sub_ret = (/\ sub_a.nullable => sub_b.nullable
                   /\ HeapType_subtypes(sub_a.value, sub_b.value, sub_module, {}))

\* what the comparison computes: a.nullable = b.nullable or a.nullable
NullableSubtypingNarrows ==
    sub_pc = "done" =>
        sub_ret = (/\ sub_b.nullable => sub_a.nullable
                   /\ HeapType_subtypes(sub_a.value, sub_b.value, sub_module, {}))

(***************************************************************************)
(* Splicing (passes/splice.rs): an operator wrapped into a function.       *)
(***************************************************************************)
MaxReturns == 2

\* Type::Heap of a nullable reference to a signature, as op_inputs of
\* CallRef pushes it
RefNullSig(sig_index) == "RefNullSig" \o ToString(sig_index)

\* op_traits::op_inputs(module, None, op) for the operators spliced here
op_inputs(module, op) ==
    CASE op.name \in {"Unreachable", "Nop"} -> ROk(<<>>)
      [] op.name = "Call" ->
             ROk(module.signatures[module.funcs[op.index].sig].params)
      [] op.name = "CallIndirect" ->
             ROk(Append(module.signatures[op.sig_index].params, "I32"))
      [] op.name = "Select" -> RErr
      [] op.name = "I32Store" ->
             ROk(IF module.memories[op.index].memory64
                 THEN <<"I64", "I32">> ELSE <<"I32", "I32">>)
      [] op.name = "I32Const" -> ROk(<<>>)
      [] op.name = "I32Add" -> ROk(<<"I32", "I32">>)
      [] op.name = "CallRef" ->
             ROk(Append(module.signatures[op.index].params, RefNullSig(op.index)))

\* op_traits::op_outputs(module, None, op)
op_outputs(module, op) ==
    CASE op.name \in {"Unreachable", "Nop"} -> ROk(<<>>)
      [] op.name = "Call" ->
             ROk(module.signatures[module.funcs[op.index].sig].returns)
      [] op.name = "CallIndirect" ->
             ROk(module.signatures[op.sig_index].returns)
      [] op.name = "Select" -> RErr
      [] op.name = "I32Store" -> ROk(<<>>)
      [] op.name \in {"I32Const", "I32Add"} -> ROk(<<"I32">>)
      [] op.name = "CallRef" -> ROk(module.signatures[op.index].returns)

RECURSIVE add_pick_outputs(_, _, _, _, _, _)
add_pick_outputs(f, b, c, returns, s, v) ==
    IF s > Len(returns) THEN [body |-> f, values |-> v]
    ELSE LET f1 == add_value(f, VPickOutput(c, s - 1, returns[s]))
             w  == Len(f1.values)
         IN  add_pick_outputs(append_to_block(f1, b, w), b, c, returns,
                              s + 1, Append(v, w))

\* more::results_ref: the outputs of a call picked one by one, None for a
\* value that is not a Call or CallIndirect
results_ref(m, f, c0) ==
    LET r  == resolve_and_update_alias(f.values, c0)
        c  == r.to.value
        f1 == [f EXCEPT !.values = r.values]
        d  == f1.values[c]
        b  == f1.value_blocks[c]
    IN  IF d.kind = "Operator" /\ d.op.name \in {"Call", "CallIndirect"}
        THEN LET s == IF d.op.name = "Call" THEN m.funcs[d.op.index].sig
                      ELSE d.op.sig_index
                 p == add_pick_outputs(f1, b, c, m.signatures[s].returns, 1, <<>>)
             IN  [tag |-> "Some", body |-> p.body, values |-> p.values]
        ELSE [tag |-> "None", body |-> f1, values |-> <<>>]

\* splice_op; the name of the function is the Display of the operator
splice_op(m, x) ==
    LET ins  == op_inputs(m, x)
        outs == op_outputs(m, x)
    IN  IF ins.tag = "Err" \/ outs.tag = "Err" THEN [ret |-> RErr, module |-> m]
        ELSE
        LET ns    == new_sig(m, SigFunc(ins.val, outs.val))
            m1    == ns.module
            body  == FunctionBody_new(m1, ns.sig)
            args  == ParamValues(body.blocks[body.entry])
            done  ==
                CASE x.name = "Call" ->
                         set_terminator(body, body.entry, TReturnCall(x.index, args))
                  [] x.name = "CallIndirect" ->
                         set_terminator(body, body.entry,
                             TReturnCallIndirect(x.sig_index,
                                                 x.index, args))
                  [] OTHER ->
                         LET b1 == add_value(body, VOperator(x, args, outs.val))
                             a  == Len(b1.values)
                             r  == results_ref(m1, b1, a)
                             b  == IF r.tag = "Some" THEN r.values ELSE <<a>>
                             b2 == set_terminator(r.body, body.entry, TReturn(b))
                         IN  append_to_block(b2, body.entry, a)
        IN  [ret |-> ROk(Len(m1.funcs) + 1),
             module |-> [m1 EXCEPT !.funcs =
                            Append(@, FuncDecl_Body(ns.sig, x.name, done))]]

\* signatures of no, one and MaxReturns results, and the operators over a
\* module of two functions, one table and one memory
SpliceSignatures ==
    {SigFunc(ps, [i \in 1..n |-> "I32"]) :
        ps \in {<<>>, <<"I32">>, <<"I32", "I64">>}, n \in 0..MaxReturns}

SpliceModules ==
    {[Module_empty EXCEPT
        !.signatures = sigs,
        !.funcs = [i \in 1..2 |-> FuncDecl_Import(fs[i], "f")],
        !.tables = <<TableData(FALSE, <<>>)>>,
        !.memories = <<MemoryData_of(1, <<>>, m64)>>] :
        sigs \in [1..2 -> SpliceSignatures], fs \in [1..2 -> 1..2],
        m64 \in BOOLEAN}

SpliceOperators ==
    {Op("Nop", 0), Op("Unreachable", 0), Op("Select", 0), Op("I32Const", 7),
     Op("I32Add", 0), Op("I32Store", 1)}
    \cup {Op("Call", f) : f \in 1..2}
    \cup {OpCallIndirect(s, 1) : s \in 1..2}
    \cup {Op("CallRef", s) : s \in 1..2}

SpliceInit ==
    /\ splice_m \in SpliceModules
    /\ splice_x \in SpliceOperators
    /\ splice_pc = "call"
    /\ splice_ret = RNone
    /\ KtsOff
    /\ FtsOff
    /\ CopOff
    /\ PassesOff("splice")

Splice_splice_op ==
    /\ splice_pc = "call"
    /\ LET r == splice_op(splice_m, splice_x)
       IN  /\ splice_m' = r.module
           /\ splice_ret' = r.ret
    /\ splice_pc' = "done"
    /\ UNCHANGED <<splice_x, notSplice>>

NextSplice == Splice_splice_op

SpecSplice == SpliceInit /\ [][NextSplice]_vars

(***************************************************************************)
(* Claims about splicing.                                                  *)
(***************************************************************************)
Spliced == splice_pc = "done" /\ splice_ret.tag = "Ok"
SplicedDecl == splice_m.funcs[splice_ret.val]
SplicedEntry == SplicedDecl.body.blocks[SplicedDecl.body.entry]

\* the signature of the produced function is (inputs(op)) -> (outputs(op))
SplicedSignature ==
    splice_m.signatures[SplicedDecl.sig] =
        SigFunc(op_inputs(splice_m, splice_x).val, op_outputs(splice_m, splice_x).val)

\* the entry block runs the operator on its blockparams in order: as an
\* instruction, or as the tail call of the called function
SplicedRunsOp ==
    LET t == SplicedEntry.terminator
    IN  CASE splice_x.name = "Call" ->
                 /\ t.kind = "ReturnCall"
                 /\ t.func = splice_x.index
                 /\ t.args = ParamValues(SplicedEntry)
          [] splice_x.name = "CallIndirect" ->
                 /\ t.kind = "ReturnCallIndirect"
                 /\ t.sig = splice_x.sig_index
                 /\ t.table = splice_x.index
                 /\ t.args = ParamValues(SplicedEntry)
          [] OTHER ->
                 \E i \in DOMAIN SplicedEntry.insts :
                     LET d == SplicedDecl.body.values[SplicedEntry.insts[i]]
                     IN  /\ d.kind = "Operator"
                         /\ d.op = splice_x
                         /\ d.args = ParamValues(SplicedEntry)

\* a Return carries one value per return type of the signature
SplicedReturnArity ==
    SplicedEntry.terminator.kind = "Return" =>
        Len(SplicedEntry.terminator.values) =
            Len(splice_m.signatures[SplicedDecl.sig].returns)

\* C22: for every operator accepted by splice_op the produced function has
\* the signature (inputs(op)) -> (outputs(op)), its entry block executes the
\* operator on the entry blockparams in order, and its Return carries as
\* many values as the operator has results, none and several included
C22_SpliceShape ==
    Spliced => SplicedSignature /\ SplicedRunsOp /\ SplicedReturnArity

\* the part that holds: the signature and the operator on the blockparams
SpliceSignatureAndOp == Spliced => SplicedSignature /\ SplicedRunsOp

\* the Return of a wrapped operator that is not a call always carries one
\* value, the operator itself
SpliceReturnsTheOperator ==
    (Spliced /\ SplicedEntry.terminator.kind = "Return") =>
        /\ Len(SplicedEntry.terminator.values) = 1
        /\ SplicedDecl.body.values[SplicedEntry.terminator.values[1]].kind = "Operator"

(***************************************************************************)
(* Claims about the pruning of Kts and about unmapped operands.            *)
(***************************************************************************)
\* the operands of a terminator, in order: the arguments of its targets,
\* its condition or selector, its returned values or call arguments
TerminatorOperands(t) ==
    LET ts == visit_targets(t)
        RECURSIVE TargetArgs(_)
        TargetArgs(i) == IF i > Len(ts) THEN <<>> ELSE ts[i].args \o TargetArgs(i + 1)
    IN  TargetArgs(1) \o
        (CASE t.kind = "CondBr" -> <<t.cond>>
           [] t.kind = "Select" -> <<t.value>>
           [] t.kind = "Return" -> t.values
           [] t.kind \in {"ReturnCall", "ReturnCallIndirect", "ReturnCallRef"} -> t.args
           [] OTHER -> <<>>)

\* the instructions of source block b that have a value of their own in
\* the destination when exactly those for which Dropped holds are left out;
\* an Alias is bound to the image of the value it names
Emitted(b, Dropped(_)) ==
    SelectSeq(kts_src.blocks[b].insts,
              LAMBDA i : ~Dropped(i) /\ kts_src.values[i].kind # "Alias")

\* the destination block is the copy of the listed instructions, in order
CopiedInOrder(b, kept) ==
    LET insts == kts_dst.blocks[kts_blocks[b]].insts
    IN  /\ Len(insts) = Len(kept)
        /\ \A j \in DOMAIN kept :
              LET s == kts_src.values[kept[j]]
                  d == kts_dst.values[insts[j]]
              IN  IF s.kind = "None"
                  THEN d.kind = "Operator" /\ d.op = Op("Nop", 0)
                  ELSE /\ d.kind = s.kind
                       /\ s.kind = "Operator" => d.op = s.op

\* pure and an operand of no instruction of the block nor of its terminator
UnusedPure(b, i) ==
    /\ value_is_pure(i, kts_src)
    /\ \A j \in Range(kts_src.blocks[b].insts) :
          i \notin ValueDef_visit_uses(kts_src.values[j])
    /\ i \notin Range(TerminatorOperands(kts_src.blocks[b].terminator))

KtsCopied == KtsReturned /\ kts_first = kts_src.entry

\* C23: Kts omits a source instruction only if it is pure and used neither
\* by an instruction of the block nor by the terminator, whatever the kind
\* of the terminator; every other instruction is emitted in source order,
\* and every operand of the emitted terminator has a destination value
C23_KtsPruningRule ==
    KtsCopied =>
        \A b \in DOMAIN kts_blocks :
            /\ CopiedInOrder(b, Emitted(b, LAMBDA i : UnusedPure(b, i)))
            /\ Len(TerminatorOperands(kts_dst.blocks[kts_blocks[b]].terminator))
                  = Len(TerminatorOperands(kts_src.blocks[b].terminator))

\* what the loop does: the uses are those of Terminator::visit_uses, which
\* does not visit the arguments of ReturnCallRef
KtsPrunesByVisitUses ==
    KtsCopied =>
        \A b \in DOMAIN kts_blocks :
            CopiedInOrder(b, Emitted(b, LAMBDA i : pruned(kts_src, b, i)))

\* the rule holds in every block that does not end in ReturnCallRef
KtsPruningRuleButReturnCallRef ==
    KtsCopied =>
        \A b \in DOMAIN kts_blocks :
            kts_src.blocks[b].terminator.kind # "ReturnCallRef" =>
                /\ CopiedInOrder(b, Emitted(b, LAMBDA i : UnusedPure(b, i)))
                /\ Len(TerminatorOperands(kts_dst.blocks[kts_blocks[b]].terminator))
                      = Len(TerminatorOperands(kts_src.blocks[b].terminator))


(***************************************************************************)
(* Bodies in which a block reads a value of another block: block 1 calls   *)
(* and branches to block 2 without arguments; block 2 calls too, and one   *)
(* operand of it names the call of block 1 (foreign) or its own.           *)
(***************************************************************************)
OperandSites == {"operator", "pick", "alias", "return", "returncall",
                 "returncallindirect", "returncallref", "br", "condbr", "select"}

CrossBody(site, u) ==
    LET call == VOperator(Op("Call", 1), <<>>, <<"I32">>)
        inst == CASE site = "operator" -> VOperator(Op("Call", 1), <<u>>, <<>>)
                  [] site = "pick"     -> VPickOutput(u, 0, "I32")
                  [] site = "alias"    -> VAlias(u)
                  [] OTHER             -> VOperator(Op("Call", 1), <<>>, <<>>)
        term == CASE site = "return"             -> TReturn(<<u>>)
                  [] site = "returncall"         -> TReturnCall(1, <<u>>)
                  [] site = "returncallindirect" -> TReturnCallIndirect(1, 1, <<u>>)
                  [] site = "returncallref"      -> TReturnCallRef(1, <<u>>)
                  [] site = "br"     -> TBr(BlockTarget(3, <<u>>))
                  [] site = "condbr" ->
                         TCondBr(u, BlockTarget(3, <<2>>), BlockTarget(3, <<2>>))
                  [] site = "select" ->
                         TSelect(u, <<BlockTarget(3, <<2>>)>>, BlockTarget(3, <<2>>))
                  [] OTHER -> TReturn(<<2>>)
    IN  recompute_edges(
            [n_params |-> 0, rets |-> <<"I32">>, entry |-> 1,
             blocks |-> <<[BlockDef_default EXCEPT
                              !.insts = <<1>>,
                              !.terminator = TBr(BlockTarget(2, <<>>))],
                          [BlockDef_default EXCEPT
                              !.insts = <<2, 3>>, !.terminator = term],
                          [BlockDef_default EXCEPT
                              !.params = <<<<"I32", 4>>>>,
                              !.terminator = TReturn(<<4>>)]>>,
             values |-> <<call, call, inst, VBlockParam(3, 0, "I32")>>,
             value_blocks |-> <<1, 2, 2, 3>>])

CrossBodies == {CrossBody(site, u) : site \in OperandSites, u \in {1, 2}}

KtsCrossInit ==
    /\ kts_src \in CrossBodies
    /\ kts_dst = FunctionBody_new(KtsModule(kts_src), 1)
    /\ kts_blocks = EmptyMap
    /\ kts_stack = <<>>
    /\ kts_ret = RNone
    /\ kts_round = 1
    /\ kts_first = 0
    /\ kts_more = FALSE
    /\ FtsOff
    /\ CopOff
    /\ PassesOff("")

SpecKtsCross == KtsCrossInit /\ [][NextKts]_vars

\* the values a block may name: its blockparams and its instructions
OwnValues(body, b) ==
    Range(ParamValues(body.blocks[b])) \cup Range(body.blocks[b].insts)

\* the first call of translate, on the entry, has returned Ok
KtsFirstCopied == KtsCopied /\ ~kts_more

\* the instructions the loop retains and the operands they and the
\* terminator name
Retained(b) == Emitted(b, LAMBDA i : pruned(kts_src, b, i))

\* the argument lists of the copy of block b are as long as the source's
FullArity(b) ==
    LET kept  == Retained(b)
        insts == kts_dst.blocks[kts_blocks[b]].insts
    IN  /\ Len(insts) = Len(kept)
        /\ \A j \in DOMAIN kept :
              kts_src.values[kept[j]].kind = "Operator" =>
                  Len(kts_dst.values[insts[j]].args)
                      = Len(kts_src.values[kept[j]].args)
        /\ Len(TerminatorOperands(kts_dst.blocks[kts_blocks[b]].terminator))
              = Len(TerminatorOperands(kts_src.blocks[b].terminator))

\* C24: when Kts rewrites a retained instruction or a terminator and one of
\* its operands has no entry in the substitution map, translate returns an
\* error: a translation that returned Ok has produced no operator and no
\* terminator with fewer arguments than its source
C24_MissingMappingSurfaced ==
    KtsFirstCopied => \A b \in DOMAIN kts_blocks : FullArity(b)

\* the look-ups that do return the error: the value of a PickOutput, the
\* value of an Alias, the condition of a CondBr and the selector of a Select
KtsSurfacesLookups ==
    KtsFirstCopied =>
        \A b \in DOMAIN kts_blocks :
            LET t == kts_src.blocks[b].terminator
            IN  /\ \A i \in Range(kts_src.blocks[b].insts) :
                      kts_src.values[i].kind \in {"PickOutput", "Alias"} =>
                          kts_src.values[i].value \in OwnValues(kts_src, b)
                /\ t.kind = "CondBr" => t.cond \in OwnValues(kts_src, b)
                /\ t.kind = "Select" => t.value \in OwnValues(kts_src, b)

\* a successful translation of a body whose operator, branch or return
\* names a value of another block
KtsDroppedOperand ==
    /\ KtsFirstCopied
    /\ \E b \in DOMAIN kts_blocks : ~FullArity(b)


(***************************************************************************)
(* Claims about the arity of the blocks and targets of Frint.              *)
(***************************************************************************)
\* the slot of the key for the parameter at position i of block k: a
\* function, or 0 for an unknown or a parameter that is no function ref
KeySlot(key, i) ==
    LET ps == frint_src.blocks[key[1]].params
    IN  IF is_func_ref(ps[i][1]) /\ RefSlot(key[1], i) <= Len(key[2])
        THEN key[2][RefSlot(key[1], i)]
        ELSE 0

\* the parameters of the source block that are bound to a RefFunc, and
\* those that get a blockparam
BoundParams(key) ==
    SelectSeq([i \in DOMAIN frint_src.blocks[key[1]].params |-> i],
              LAMBDA i : KeySlot(key, i) # 0)
PassedParams(key) ==
    SelectSeq([i \in DOMAIN frint_src.blocks[key[1]].params |-> i],
              LAMBDA i : KeySlot(key, i) = 0)

\* the destination block of a key: a blockparam of the same type per passed
\* parameter, in order, and its first instructions are the RefFunc of the
\* slots of the bound parameters, in order
FrintBlockShape(key) ==
    LET new    == frint_dst.blocks[frint_blocks[key]]
        bound  == BoundParams(key)
        passed == PassedParams(key)
        ps     == frint_src.blocks[key[1]].params
    IN  /\ ParamTypes(new) = [j \in DOMAIN passed |-> ps[passed[j]][1]]
        /\ Len(new.insts) >= Len(bound)
        /\ \A j \in DOMAIN bound :
              LET d == frint_dst.values[new.insts[j]]
              IN  /\ d.kind = "Operator"
                  /\ d.op = Op("RefFunc", KeySlot(key, bound[j]))
                  /\ d.args = <<>>
                  /\ d.tys = <<ps[bound[j]][1]>>

\* every target of a written terminator passes as many arguments as the
\* block it names has blockparams
FrintTargetArity(key) ==
    \A i \in FrintSites(key) :
        Len(FrintDstSite(key, i).args)
            = Len(frint_dst.blocks[FrintDstSite(key, i).block].params)

\* C25: in the destination block made for a key every function-reference
\* parameter whose slot is Some(func) is a RefFunc{func} instruction and
\* every other parameter a blockparam, and every BlockTarget Frint emits
\* has as many arguments as its destination block has blockparams
C25_FrintArity ==
    /\ \A key \in DOMAIN frint_blocks : FrintBlockShape(key)
    /\ \A key \in FrintDone : FrintTargetArity(key)

\* Frint returned and has made a block for a key with a known function,
\* and a written terminator branches to it with one argument fewer than
\* the source branch
C25_Witness ==
    /\ frint_stack = <<>>
    /\ frint_ret.tag = "Ok"
    /\ \E key \in FrintDone :
          \E i \in FrintSites(key) :
              /\ Len(FrintDstSite(key, i).args) < Len(FrintSrcSite(key, i).args)
              /\ \E k2 \in DOMAIN frint_blocks :
                    /\ frint_blocks[k2] = FrintDstSite(key, i).block
                    /\ BoundParams(k2) # <<>>


(***************************************************************************)
(* Claims about the reserve-first translation of signatures and functions. *)
(***************************************************************************)
\* a type with its reference to a signature taken through the cache
RemapType(ty, cache) ==
    IF ty.ty = "Heap" /\ ty.heap.value.kind = "Sig"
    THEN [ty EXCEPT !.heap.value.sig_index = cache[@]]
    ELSE ty

RemapField(f, cache) ==
    IF f.value.storage = "Val"
    THEN [f EXCEPT !.value.val = RemapType(@, cache)]
    ELSE f

\* a signature with every reference taken through the cache
RemapSig(d, cache) ==
    CASE d.kind = "Func" ->
             SigFunc([i \in DOMAIN d.params |-> RemapType(d.params[i], cache)],
                     [i \in DOMAIN d.returns |-> RemapType(d.returns[i], cache)])
      [] d.kind = "Struct" ->
             SigStruct([i \in DOMAIN d.fields |-> RemapField(d.fields[i], cache)])
      [] d.kind = "Array" -> SigArray(RemapField(d.ty, cache))
      [] d.kind = "None" -> d

\* the signatures a signature refers to
SigRefsOfType(ty) ==
    IF ty.ty = "Heap" /\ ty.heap.value.kind = "Sig"
    THEN {ty.heap.value.sig_index} ELSE {}

SigRefs(d) ==
    CASE d.kind = "Func" ->
             UNION {SigRefsOfType(t) : t \in Range(d.params) \cup Range(d.returns)}
      [] d.kind = "Struct" ->
             UNION {SigRefsOfType(f.value.val) :
                       f \in {g \in Range(d.fields) : g.value.storage = "Val"}}
      [] d.kind = "Array" ->
             IF d.ty.value.storage = "Val" THEN SigRefsOfType(d.ty.value.val) ELSE {}
      [] d.kind = "None" -> {}

\* every translated signature has one image, distinct from the others,
\* which is the source signature with its references, those to itself
\* included, taken to the images: no slot is left the None it was
\* reserved as unless the source is None
SigsTied ==
    /\ Injective(cop_sig_cache)
    /\ \A s \in DOMAIN cop_sig_cache :
          /\ cop_sig_cache[s] \in DOMAIN cop_dest.signatures
          /\ SigRefs(cop_orig.signatures[s]) \subseteq DOMAIN cop_sig_cache
          /\ cop_dest.signatures[cop_sig_cache[s]]
                = RemapSig(cop_orig.signatures[s], cop_sig_cache)

\* a function under translation has its image reserved and cached: the
\* slot is the None placeholder as long as its body is being walked
FuncsReserved ==
    /\ Injective(cop_fun_cache)
    /\ \A i \in DOMAIN cop_stack :
          LET fr == cop_stack[i]
          IN  (fr.fn = "internal_translate_func" /\ fr.pc # "call") =>
                  /\ fr.a \in DOMAIN cop_fun_cache
                  /\ cop_fun_cache[fr.a] = fr.dst
                  /\ cop_dest.funcs[fr.dst].kind = "None"

\* a cached image is never replaced
ImagesKept ==
    /\ \A f \in DOMAIN cop_fun_cache :
          f \in DOMAIN cop_fun_cache' /\ cop_fun_cache'[f] = cop_fun_cache[f]
    /\ \A s \in DOMAIN cop_sig_cache :
          s \in DOMAIN cop_sig_cache' /\ cop_sig_cache'[s] = cop_sig_cache[s]

\* after tree_shake has returned Ok every reserved function slot is
\* filled, unless the source function was FuncDecl::None
FuncsFilled ==
    cop_phase = "ok" =>
        \A f \in DOMAIN cop_fun_cache :
            cop_orig.funcs[f].kind # "None" =>
                cop_dest.funcs[cop_fun_cache[f]].kind # "None"

\* the same after any return of tree_shake, Ok or Err
FuncsFilledOnReturn ==
    cop_phase \in {"ok", "err"} =>
        \A f \in DOMAIN cop_fun_cache :
            cop_orig.funcs[f].kind # "None" =>
                cop_dest.funcs[cop_fun_cache[f]].kind # "None"

\* the references the copier follows from the first n functions and from
\* the first n tables of a module
RECURSIVE FuncRefs(_, _)
FuncRefs(m, n) ==
    IF n = 0 THEN 0
    ELSE FuncRefs(m, n - 1) + 1 + Len(func_items(m.funcs[n]))

RECURSIVE TableRefs(_, _)
TableRefs(m, n) ==
    IF n = 0 THEN 0
    ELSE TableRefs(m, n - 1) + 1 + Len(m.tables[n].func_elements)

\* a bound on the steps of tree_shake: every function is walked once, its
\* slot being reserved before the walk, and a table is walked again only
\* below a function that was reserved since; following one reference
\* takes at most six steps
CopStepBound(m) ==
    1 + 6 * (Len(m.exports) + FuncRefs(m, Len(m.funcs))
               + (1 + Len(m.funcs)) * TableRefs(m, Len(m.tables)))

\* the copier has taken no more steps than the bound of its input, and has
\* returned when it can take no further step
CopTerminates ==
    /\ cop_phase # "off" => cop_steps <= CopStepBound(cop_orig)
    /\ cop_phase = "running" =>
          \/ cop_stack # <<>>
          \/ cop_done < Len(cop_src.exports)
          \/ cop_ret.tag # "None"

\* C26: the copier terminates on cyclic inputs, signatures that refer to
\* themselves or to each other and recursive functions included; every
\* translated signature and function has exactly one destination id,
\* reserved and cached before its body is translated; when the outermost
\* call has returned no reserved slot is still the None placeholder unless
\* its source was None
C26_ReserveFirst ==
    /\ [](SigsTied /\ FuncsReserved /\ FuncsFilledOnReturn /\ CopTerminates)
    /\ [][ImagesKept]_vars

\* the same with the slots looked at after a return of Ok only
ReserveFirstWhenOk ==
    /\ [](SigsTied /\ FuncsReserved /\ FuncsFilled /\ CopTerminates)
    /\ [][ImagesKept]_vars

\* tree_shake returned Err while a function was being translated: its
\* reserved slot is still the placeholder
C26_ErrLeavesPlaceholder ==
    /\ cop_phase = "err"
    /\ \E f \in DOMAIN cop_fun_cache :
          /\ cop_orig.funcs[f].kind = "Body"
          /\ cop_dest.funcs[cop_fun_cache[f]].kind = "None"

\* tree_shake returned Ok on a module whose exported function tail-calls
\* itself and calls through a signature that refers to itself and to a
\* signature that refers back to it
C26_Witness ==
    /\ cop_phase = "ok"
    /\ Len(cop_orig.signatures) = 3
    /\ {2, 3} \subseteq DOMAIN cop_sig_cache
    /\ {2, 3} \subseteq SigRefs(cop_orig.signatures[2])
    /\ 2 \in SigRefs(cop_orig.signatures[3])
    /\ cop_sig_cache[2] \in SigRefs(cop_dest.signatures[cop_sig_cache[2]])
    /\ 1 \in DOMAIN cop_fun_cache
    /\ LET d == cop_dest.funcs[cop_fun_cache[1]]
       IN  /\ d.kind = "Body"
           /\ d.body.blocks[d.body.entry].terminator
                 = TReturnCall(cop_fun_cache[1], <<>>)


(***************************************************************************)
(* Claims about the tables of the copy.                                    *)
(***************************************************************************)
\* the source tables the copier has an image for
TableSources == {a \in DOMAIN cop_cache : a.import = "Table"}

\* every table index of a translated body is the image the cache has for
\* the table named at that place of the source body
TableRefsAreImages ==
    \A f \in DOMAIN cop_fun_cache :
        cop_dest.funcs[cop_fun_cache[f]].kind = "Body" =>
            LET items == func_items(cop_orig.funcs[f]) IN
            \A i \in DOMAIN items :
                items[i].variant = "Table" =>
                    LET t == ImportKind("Table", get_ref(cop_orig.funcs[f].body, items[i]))
                        u == get_ref(cop_dest.funcs[cop_fun_cache[f]].body, items[i])
                    IN  t \in TableSources /\ u = cop_cache[t].id

\* every exported table is the image the cache has for the source table
TableExportsAreImages ==
    \A i \in DOMAIN cop_dest.exports :
        cop_orig.exports[i].kind.export = "Table" =>
            /\ x2i(cop_orig.exports[i].kind) \in TableSources
            /\ x2i(cop_dest.exports[i].kind) = cop_cache[x2i(cop_orig.exports[i].kind)]

\* C27: every source table reached during a copy has exactly one image in
\* dst.tables, and every reference to it in the destination, from an export
\* or from an operator or terminator of a body, names that image, also when
\* an element of the table uses the table
C27_TablesDeduplicated ==
    cop_phase = "ok" =>
        /\ Len(cop_dest.tables) = Cardinality(TableSources)
        /\ TableRefsAreImages
        /\ TableExportsAreImages

\* tree_shake returned Ok on the module whose table is not imported and
\* holds a function that reads the table: the table was copied twice, and
\* the function that was being translated names the first copy while the
\* cache, the caller and the export name the second
C27_TableCopiedTwice ==
    /\ cop_phase = "ok"
    /\ cop_orig = ModuleTable(FALSE)
    /\ Len(cop_dest.tables) = 3
    /\ cop_dest.tables[1] = cop_dest.tables[2]
    /\ cop_cache[ImportKind("Table", 1)].id = 2
    /\ get_ref(cop_dest.funcs[cop_fun_cache[2]].body,
               [loc |-> "value", at |-> 2, field |-> "index"]) = 1
    /\ get_ref(cop_dest.funcs[cop_fun_cache[1]].body,
               [loc |-> "value", at |-> 2, field |-> "index"]) = 2


(***************************************************************************)
(* Reordering of memories (passes/reorder_funs.rs 82-129).                 *)
(***************************************************************************)
MaxMemories == 3

\* the map of fixup_mem_orders: the memories some import names first, then
\* the others, each group in its order
fixup_mem_orders_map(m) ==
    LET imported(f) == \E i \in DOMAIN m.imports :
                           m.imports[i].kind = ImportKind("Memory", f)
        a == SelectSeq([f \in DOMAIN m.memories |-> f], LAMBDA f : imported(f))
        b == SelectSeq([f \in DOMAIN m.memories |-> f], LAMBDA f : ~imported(f))
        order == a \o b
    IN  [f \in DOMAIN m.memories |-> InstPos(order, f)]

fixup_mem_orders(m) == reorder_mems(m, fixup_mem_orders_map(m))

\* MaxMemories memories of different sizes, any of them imported, a
\* function that asks for the size of one memory and loads from another,
\* and the export of a memory or of the function
MemOrderModule(imp, k, l, ex) ==
    MkModule(<<MkDecl("f", <<<<Op("MemorySize", k), <<>>, <<"I32">>>>,
                               <<Op("I32Load", l), <<1>>, <<"I32">>>>>>,
                      TReturn(<<>>))>>,
             <<>>,
             [i \in 1..MaxMemories |-> MemoryData_of(i, <<>>, FALSE)],
             <<>>,
             MapSeq(SelectSeq([i \in 1..MaxMemories |-> i], LAMBDA i : i \in imp),
                    [i \in 1..MaxMemories |-> Import("env", "m", ImportKind("Memory", i))]),
             <<IF ex = 0 THEN Export("f", ExportKind("Func", 1))
               ELSE Export("mem", ExportKind("Memory", ex))>>,
             0)

MemOrderModules ==
    {MemOrderModule(imp, k, l, ex) :
        imp \in SUBSET (1..MaxMemories), k \in 1..MaxMemories,
        l \in 1..MaxMemories, ex \in 0..MaxMemories}

MemOrderInit ==
    /\ memorder_m \in MemOrderModules
    /\ memorder_orig = memorder_m
    /\ memorder_pc = "call"
    /\ KtsOff
    /\ FtsOff
    /\ CopOff
    /\ PassesOff("memorder")

MemOrder_fixup_mem_orders ==
    /\ memorder_pc = "call"
    /\ LET r == fixup_mem_orders(memorder_m)
       IN  /\ memorder_m' = r.module
           /\ memorder_pc' = IF r.status = "panic" THEN "panic" ELSE "done"
    /\ UNCHANGED <<memorder_orig, notMemorder>>

NextMemOrder == MemOrder_fixup_mem_orders

SpecMemOrder == MemOrderInit /\ [][NextMemOrder]_vars

(***************************************************************************)
(* Claims about fixup_mem_orders.                                          *)
(***************************************************************************)
\* some import of the module names memory f
MemNamed(m, f) ==
    \E i \in DOMAIN m.imports : m.imports[i].kind = ImportKind("Memory", f)

\* the memory operators of the bodies denote the memory data they denoted
MemOperatorsKept ==
    \A f \in DOMAIN memorder_orig.funcs :
        memorder_orig.funcs[f].kind = "Body" =>
            \A v \in DOMAIN memorder_orig.funcs[f].body.values :
                LET old == memorder_orig.funcs[f].body.values[v]
                    new == memorder_m.funcs[f].body.values[v]
                IN  (old.kind = "Operator"
                        /\ old.op.name \in AddressedOps \cup SizeOps) =>
                    /\ new.op.name = old.op.name
                    /\ memorder_m.memories[new.op.index]
                           = memorder_orig.memories[old.op.index]

\* the memory imports and exports denote the memory data they denoted
MemImportsExportsKept ==
    /\ \A i \in DOMAIN memorder_orig.imports :
          memorder_orig.imports[i].kind.import = "Memory" =>
              /\ memorder_m.imports[i].kind.import = "Memory"
              /\ memorder_m.memories[memorder_m.imports[i].kind.id]
                     = memorder_orig.memories[memorder_orig.imports[i].kind.id]
    /\ \A i \in DOMAIN memorder_orig.exports :
          memorder_orig.exports[i].kind.export = "Memory" =>
              /\ memorder_m.exports[i].kind.export = "Memory"
              /\ memorder_m.memories[memorder_m.exports[i].kind.id]
                     = memorder_orig.memories[memorder_orig.exports[i].kind.id]

\* C28: after fixup_mem_orders every memory that a memory import of
\* m.imports names has a smaller index than every memory no import names,
\* and every recorded memory reference (operators of the bodies, memory
\* imports, memory exports) denotes the same memory data as before
C28_MemOrderKeepsReferences ==
    memorder_pc = "done" =>
        /\ \A a, b \in DOMAIN memorder_m.memories :
              (MemNamed(memorder_m, a) /\ ~MemNamed(memorder_m, b)) => a < b
        /\ MemOperatorsKept
        /\ MemImportsExportsKept

\* what the pass does: the memories are permuted, the data that was imported
\* comes first, and the operators follow their data
MemOrderMovesDataAndOperators ==
    memorder_pc = "done" =>
        LET fs == fixup_mem_orders_map(memorder_orig) IN
        /\ {fs[f] : f \in DOMAIN fs} = DOMAIN memorder_orig.memories
        /\ \A f \in DOMAIN fs : memorder_m.memories[fs[f]] = memorder_orig.memories[f]
        /\ \A a, b \in DOMAIN fs :
              (MemNamed(memorder_orig, a) /\ ~MemNamed(memorder_orig, b))
                  => fs[a] < fs[b]
        /\ MemOperatorsKept

\* the imports and the exports keep the index they had
MemOrderLeavesImportsAndExports ==
    memorder_pc = "done" =>
        /\ memorder_m.imports = memorder_orig.imports
        /\ memorder_m.exports = memorder_orig.exports

\* the second memory alone is imported and exported: after the pass its
\* data is memory 1, and the import and the export name the data of what
\* was memory 1
C28_ImportNamesOtherMemory ==
    /\ memorder_pc = "done"
    /\ memorder_orig.imports = <<Import("env", "m", ImportKind("Memory", 2))>>
    /\ memorder_orig.exports = <<Export("mem", ExportKind("Memory", 2))>>
    /\ memorder_m.imports = memorder_orig.imports
    /\ memorder_m.memories[1] = memorder_orig.memories[2]
    /\ memorder_m.memories[2] = memorder_orig.memories[1]
    /\ ~MemNamed(memorder_m, 1)


(***************************************************************************)
(* Claims about the start function under tree_shake.                       *)
(***************************************************************************)
\* the function runs an operator Call of g or tail-calls g
Invokes(decl, g) ==
    /\ decl.kind = "Body"
    /\ \/ \E v \in DOMAIN decl.body.values :
              /\ decl.body.values[v].kind = "Operator"
              /\ decl.body.values[v].op = Op("Call", g)
       \/ \E k \in DOMAIN decl.body.blocks :
              /\ decl.body.blocks[k].terminator.kind = "ReturnCall"
              /\ decl.body.blocks[k].terminator.func = g

\* C29: when the module had a start function f, a tree_shake that returned
\* Ok leaves a start function that invokes the image of f; the start
\* function is a root, also when no export reaches it
C29_TreeShakeKeepsStart ==
    (cop_phase = "ok" /\ cop_orig.start_func # 0) =>
        /\ cop_orig.start_func \in DOMAIN cop_fun_cache
        /\ cop_dest.start_func \in 1..Len(cop_dest.funcs)
        /\ Invokes(cop_dest.funcs[cop_dest.start_func],
                   cop_fun_cache[cop_orig.start_func])

\* what tree_shake does with a start function: translated, it makes the
\* copier panic; not translated, it is dropped and the module is left
\* without a start function
StartFuncPanicsOrIsDropped ==
    cop_orig.start_func # 0 =>
        /\ cop_orig.start_func \in DOMAIN cop_fun_cache => cop_phase = "panic"
        /\ cop_phase = "ok" =>
              /\ cop_orig.start_func \notin DOMAIN cop_fun_cache
              /\ cop_dest.start_func = 0
        /\ cop_phase = "panic" => cop_orig.start_func \in DOMAIN cop_fun_cache

\* tree_shake returned Ok on a module whose start function, a function
\* with a body, is reached by no export: the copy has no start function and
\* no image of it
C29_StartDropped ==
    /\ cop_phase = "ok"
    /\ cop_orig.start_func # 0
    /\ cop_orig.funcs[cop_orig.start_func].kind = "Body"
    /\ cop_orig.start_func \notin DOMAIN cop_fun_cache
    /\ cop_dest.start_func = 0
    /\ Len(cop_dest.funcs) < Len(cop_orig.funcs)


(***************************************************************************)
(* Claims about the termination of Fts.                                    *)
(***************************************************************************)
\* the targets of the first n blocks of a body
RECURSIVE TargetCount(_, _)
TargetCount(src, n) ==
    IF n = 0 THEN 0
    ELSE TargetCount(src, n - 1) + Len(visit_targets(src.blocks[n].terminator))

\* a bound on the steps of go2 on one body: at most one function per
\* block, in a function at most one more block than the body has, and per
\* block a constant number of steps for the block and each of its targets
FtsStepBound(src) ==
    2 + 6 * (Len(src.blocks) + 1)
          * (Len(src.blocks) + 1 + TargetCount(src, Len(src.blocks)))

\* Fts.blocks names one function per translated block, and these are all
\* the functions made since go2 was called
FtsOneFunctionEach ==
    /\ Injective(fts_blocks)
    /\ {fts_blocks[k] : k \in DOMAIN fts_blocks} = 2..Len(fts_module.funcs)

\* a block a shim of fueled_translate can be
ShimLike(b) == b.insts = <<>> /\ b.terminator.kind = "ReturnCall"

\* in every function under construction the map f names one block per
\* source block that fueled_translate copied, and every block of the
\* function but its entry is one of these or a shim
FtsOneCopyEach ==
    \A i \in DOMAIN fts_stack :
        (fts_stack[i].fn = "translate" /\ fts_stack[i].pc = "term") =>
            LET fr == fts_stack[i]
                copies == {fr.f[k] : k \in DOMAIN fr.f}
            IN  /\ Injective(fr.f)
                /\ copies \subseteq 2..Len(fr.dst.blocks)
                /\ \A b \in (2..Len(fr.dst.blocks)) \ copies :
                      ShimLike(fr.dst.blocks[b])

\* the entry of a function under construction is the one copy of the
\* function's own block: fueled_translate has not copied that block again
FtsEntryCopiedOnce ==
    \A i \in DOMAIN fts_stack :
        (fts_stack[i].fn = "translate" /\ fts_stack[i].pc = "term") =>
            fts_stack[i].k \notin DOMAIN fts_stack[i].f

\* C30 as amended: Fts terminates for every fuel on every control-flow
\* graph, loops included: the steps of translate and fueled_translate are bounded by the
\* size of the body, at most one function is made per source block and
\* within one function fueled_translate copies a source block at most
\* once, the function's own block, which translate copies into the entry,
\* included or not; go2 visits the functions that existed when it was
\* called, so that the functions Fts made are not translated again
C30_FtsCopiesOncePerMap ==
    /\ fts_phase # "off" => fts_steps <= FtsStepBound(fts_f)
    /\ fts_phase # "off" => FtsOneFunctionEach
    /\ FtsOneCopyEach
    /\ fts_phase = "done" =>
          /\ Len(fts_module.funcs) = 1 + Cardinality(DOMAIN fts_blocks)
          /\ \A g \in 2..Len(fts_module.funcs) :
                \E k \in DOMAIN fts_blocks :
                    /\ fts_blocks[k] = g
                    /\ fts_module.funcs[g].kind = "Body"
                    /\ fts_module.funcs[g].name = Block_to_string(k)

\* C30 as stated: Fts terminates for every fuel on every control-flow graph,
\* loops included: translate and fueled_translate recurse finitely often, at
\* most one function is made per source block and within one function at
\* most one copied block per source block, the entry counted; go2 visits
\* the functions that existed when it was called, so that the functions
\* Fts made are not translated again
C30_FtsTerminates == C30_FtsCopiesOncePerMap /\ FtsEntryCopiedOnce

\* a function under construction whose own block, copied into the entry
\* by translate, was copied again by fueled_translate
C30_EntryCopiedTwice ==
    \E i \in DOMAIN fts_stack :
        /\ fts_stack[i].fn = "translate" /\ fts_stack[i].pc = "term"
        /\ fts_stack[i].k \in DOMAIN fts_stack[i].f
        /\ fts_stack[i].f[fts_stack[i].k] # fts_stack[i].new

\* go2 with fuel has returned on a body with a loop: a block that is
\* among its own successors was translated, and some function holds a copy
\* of a block made by fueled_translate
C30_Witness ==
    /\ fts_phase = "done"
    /\ fts_fuel > 0
    /\ \E k \in DOMAIN fts_blocks :
          \E i \in DOMAIN visit_targets(fts_f.blocks[k].terminator) :
              visit_targets(fts_f.blocks[k].terminator)[i].block = k
    /\ \E g \in 2..Len(fts_module.funcs) :
          \E b \in 2..Len(fts_module.funcs[g].body.blocks) :
              ~ShimLike(fts_module.funcs[g].body.blocks[b])

=============================================================================
